---- MODULE Spec2Model ----
(***************************************************************************)
(* Inventory ledger of src/database.py: the products table, the            *)
(* inventory_transactions audit log and the five mutating operations, each *)
(* run by a caller on its own sqlite3 connection (get_db_connection).      *)
(*                                                                         *)
(* Python's sqlite3 module opens the transaction implicitly before the     *)
(* first INSERT/UPDATE/DELETE of a connection, never before a SELECT: the  *)
(* SELECT a handler starts with reads the committed store outside any      *)
(* transaction and is one step.  The store's write lock is taken by the    *)
(* handler's first writing statement and held until the connection commits *)
(* or rolls back, and no other connection sees the writes before the       *)
(* commit: the statements from the first write to the end of the           *)
(* with-block are one step, which ends with ConnExit.                      *)
(***************************************************************************)
EXTENDS Integers, Sequences, FiniteSets, TLC

VARIABLES
    db,            \* the committed store: both tables and sqlite_sequence
    clock,         \* CURRENT_TIMESTAMP, in seconds
    pc,            \* per caller: the statement its handler executes next
    op,            \* per caller: the call in progress
    old_quantity,  \* per caller: the handler's local old_quantity
    locals,        \* per caller: what a reading function has fetched so far
    last           \* the call that just ended, with its outcome, until the
                   \* caller has it

vars == <<db, clock, pc, op, old_quantity, locals, last>>

(* ------------------------------ bounds -------------------------------- *)

MaxProducts == 2       \* product ids ever assigned
MaxTransactions == 3   \* transaction ids ever assigned
MaxClock == 1          \* seconds the clock may advance

Procs == {1, 2}

\* Names are sequences of characters.
NameInputs == { <<>>, <<"a">>, <<"A">>, <<"a", "-">> }
CreateQuantities == {-1, 0, 2}
\* Every quantity with a name that passes the name check, one with the others.
CreateInputs ==
    {c \in NameInputs \X CreateQuantities : Len(c[1]) = 1 \/ c[2] = 0}
SetQuantities == {-1, 0, 3}
Deltas == {0, 1, 2}
IdInputs == 1..MaxProducts
\* Every id with an amount that passes the amount check, one with the others.
AmountInputs(amounts, valid) ==
    {a \in IdInputs \X amounts : a[2] \in valid \/ a[1] = 1}

(* --------------------------- values and rows --------------------------- *)

None == <<>>
Some(x) == <<x>>

AlnumChars == {"a", "A", "b", "7"}

\* str.isalnum(): every character alphanumeric and at least one character.
isalnum(s) == Len(s) > 0 /\ \A i \in 1..Len(s) : s[i] \in AlnumChars

EmptyDb ==
    [products |-> {}, transactions |-> {}, seq_products |-> 0, seq_transactions |-> 0]

NoOp == [kind |-> "none", product_name |-> <<>>, product_id |-> 0, amount |-> 0]

NoLast ==
    [op |-> NoOp, exc |-> "none", msg |-> "none", old |-> None, product |-> None,
     result |-> None]

ProductRow(id, name, q, created, updated) ==
    [id |-> id, product_name |-> name, quantity |-> q,
     created_at |-> created, updated_at |-> updated]

TransactionRow(id, pid, type, old, new, change, at) ==
    [id |-> id, product_id |-> pid, transaction_type |-> type, old_quantity |-> old,
     new_quantity |-> new, change_amount |-> change, performed_at |-> at]

(* --------------------------- the SQL statements ------------------------ *)
(* A statement maps a store d to [err, db]: err is "none" and db the store  *)
(* after the statement, or err names the exception and db is d unchanged.   *)

\* CHECK (quantity >= 0) of the products table.
CheckQuantity(q) == q >= 0

\* SELECT ... FROM products WHERE id = ?, then fetchone(): a row or None.
SelectProduct(d, id) ==
    LET rows == {r \in d.products : r.id = id}
    IN  IF rows = {} THEN None ELSE Some(CHOOSE r \in rows : TRUE)

\* The INSERT on a products table whose product_name is not UNIQUE.
InsertProduct_not_unique(d, name, q, now) ==
    IF ~CheckQuantity(q)
    THEN [err |-> "IntegrityError", db |-> d]
    ELSE [err |-> "none",
          db |-> [d EXCEPT !.products = @ \cup
                               {ProductRow(d.seq_products + 1, name, q, now, now)},
                           !.seq_products = @ + 1]]

\* The INSERT on a products table whose id is INTEGER PRIMARY KEY without
\* AUTOINCREMENT: one more than the largest id stored.
InsertProduct_largest_stored(d, name, q, now) ==
    IF (\E r \in d.products : r.product_name = name) \/ ~CheckQuantity(q)
    THEN [err |-> "IntegrityError", db |-> d]
    ELSE LET stored == {r.id : r \in d.products}
             id == IF stored = {} THEN 1
                   ELSE (CHOOSE i \in stored : \A j \in stored : j <= i) + 1
         IN  [err |-> "none",
              db |-> [d EXCEPT !.products = @ \cup {ProductRow(id, name, q, now, now)},
                               !.seq_products = id]]

\* INSERT INTO products (product_name, quantity): id from AUTOINCREMENT,
\* product_name UNIQUE, both timestamps default to CURRENT_TIMESTAMP.
InsertProduct(d, name, q, now) ==
    IF (\E r \in d.products : r.product_name = name) \/ ~CheckQuantity(q)
    THEN [err |-> "IntegrityError", db |-> d]
    ELSE [err |-> "none",
          db |-> [d EXCEPT !.products = @ \cup
                               {ProductRow(d.seq_products + 1, name, q, now, now)},
                           !.seq_products = @ + 1]]

\* The UPDATE setting created_at = CURRENT_TIMESTAMP as well.
UpdateQuantity_touches_created(d, id, q, now) ==
    IF (\E r \in d.products : r.id = id) /\ ~CheckQuantity(q)
    THEN [err |-> "IntegrityError", db |-> d]
    ELSE [err |-> "none",
          db |-> [d EXCEPT !.products =
                     {IF r.id = id THEN [r EXCEPT !.quantity = q, !.updated_at = now, !.created_at = now]
                                   ELSE r : r \in @}]]

\* The UPDATE without its WHERE clause: every row is set.
UpdateQuantity_no_where(d, id, q, now) ==
    IF d.products # {} /\ ~CheckQuantity(q)
    THEN [err |-> "IntegrityError", db |-> d]
    ELSE [err |-> "none",
          db |-> [d EXCEPT !.products =
                     {[r EXCEPT !.quantity = q, !.updated_at = now] : r \in @}]]

\* UPDATE products SET quantity = ?, updated_at = CURRENT_TIMESTAMP WHERE id = ?
UpdateQuantity(d, id, q, now) ==
    IF (\E r \in d.products : r.id = id) /\ ~CheckQuantity(q)
    THEN [err |-> "IntegrityError", db |-> d]
    ELSE [err |-> "none",
          db |-> [d EXCEPT !.products =
                     {IF r.id = id THEN [r EXCEPT !.quantity = q, !.updated_at = now]
                                   ELSE r : r \in @}]]

\* The INSERT as INSERT OR REPLACE on (product_id, transaction_type).
InsertTransaction_replaces(d, pid, type, old, new, change, now) ==
    IF ~(\E r \in d.products : r.id = pid)
    THEN [err |-> "IntegrityError", db |-> d]
    ELSE [err |-> "none",
          db |-> [d EXCEPT !.transactions =
                               {t \in @ : ~(t.product_id = pid /\ t.transaction_type = type)}
                               \cup {TransactionRow(d.seq_transactions + 1, pid, type,
                                                    old, new, change, now)},
                           !.seq_transactions = @ + 1]]

\* INSERT INTO inventory_transactions: id from AUTOINCREMENT, product_id
\* REFERENCES products(id) with foreign_keys = ON, performed_at defaults to
\* CURRENT_TIMESTAMP.
InsertTransaction(d, pid, type, old, new, change, now) ==
    IF ~(\E r \in d.products : r.id = pid)
    THEN [err |-> "IntegrityError", db |-> d]
    ELSE [err |-> "none",
          db |-> [d EXCEPT !.transactions = @ \cup
                               {TransactionRow(d.seq_transactions + 1, pid, type,
                                               old, new, change, now)},
                           !.seq_transactions = @ + 1]]

\* The DELETE without the cascade (foreign_keys left off).
DeleteProductRow_no_cascade(d, id) ==
    [err |-> "none", db |-> [d EXCEPT !.products = {r \in @ : r.id # id}]]

\* DELETE FROM products WHERE id = ?, with ON DELETE CASCADE of the log.
DeleteProductRow(d, id) ==
    [err |-> "none",
     db |-> [d EXCEPT !.products = {r \in @ : r.id # id},
                      !.transactions = {t \in @ : t.product_id # id}]]

\* change_amount with 0 for an entry without old_quantity.
change_amount_null_is_zero(old, new) == IF old # None THEN new - old[1] ELSE 0

change_amount(old, new) == new - (IF old # None THEN old[1] ELSE 0)

\* log_transaction that skips an entry that changes nothing.
log_transaction_skips_no_change(d, pid, type, old, new, now) ==
    IF old = Some(new) THEN [err |-> "none", db |-> d]
    ELSE InsertTransaction(d, pid, type, old, new, change_amount(old, new), now)

log_transaction(d, pid, type, old, new, now) ==
    InsertTransaction(d, pid, type, old, new, change_amount(old, new), now)

(* ------------------------- get_db_connection --------------------------- *)

\* get_db_connection with the commit in its finally clause.
ConnExit_commits_always(committed, working, raised) == working

\* The store a connection leaves behind when its with-block ends: commit
\* when the block ended normally, rollback when it raised.  working is the
\* state of the connection, with its uncommitted writes.
ConnExit(committed, working, raised) ==
    IF raised THEN committed ELSE working

\* The call o of caller p ends: the with-block is left, the connection is
\* committed or rolled back and closed, the outcome goes to the caller.
End(p, o, working, exc, msg, old, product) ==
    /\ db' = ConnExit(db, working, exc # "none")
    /\ pc' = [pc EXCEPT ![p] = "idle"]
    /\ op' = [op EXCEPT ![p] = NoOp]
    /\ old_quantity' = [old_quantity EXCEPT ![p] = None]
    /\ last' = [op |-> o, exc |-> exc, msg |-> msg, old |-> old, product |-> product,
                result |-> None]
    /\ UNCHANGED <<clock, locals>>

\* A call that raises before its connection is opened.
Reject(p, o, exc, msg) == End(p, o, db, exc, msg, None, None)

Init ==
    /\ db = EmptyDb
    /\ clock = 0
    /\ pc = [p \in Procs |-> "idle"]
    /\ op = [p \in Procs |-> NoOp]
    /\ old_quantity = [p \in Procs |-> None]
    /\ locals = [p \in Procs |-> None]
    /\ last = NoLast

\* Caller p may begin a call.  Callers are interchangeable and at most two
\* calls overlap, so the call that begins while none is in progress is
\* taken to be caller 1's.
MayBegin(p) ==
    /\ last = NoLast
    /\ pc[p] = "idle"
    /\ p = 1 \/ pc[1] # "idle"

\* Caller p may go on with the write of its call.
MayWrite(p, kind) ==
    /\ last = NoLast
    /\ pc[p] = "write"
    /\ op[p].kind = kind

Call(kind, name, id, amount) ==
    [kind |-> kind, product_name |-> name, product_id |-> id, amount |-> amount]

\* The rows a call adds fit within the model's bounds.
Room(d) ==
    /\ d.seq_products <= MaxProducts
    /\ d.seq_transactions <= MaxTransactions

\* What can go wrong in the store while a connection writes: nothing, the
\* INSERT into the log fails, the commit fails.
Faults == {"none", "log", "commit"}

(* ---------------------------- create_product --------------------------- *)

\* The with-block of create_product: INSERT the product, log the CREATE
\* entry, SELECT the product and return it.  An IntegrityError of the block
\* is re-raised as ValueError "already exists".
create_product_block(p, o, fault) ==
    LET r1 == InsertProduct(db, o.product_name, o.amount, clock)
        product_id == r1.db.seq_products
        r2 == log_transaction(r1.db, product_id, "CREATE", None, o.amount, clock)
        product == SelectProduct(r2.db, product_id)
    IN  IF r1.err # "none" THEN End(p, o, r1.db, "ValueError", "exists", None, None)
        ELSE /\ Room(r2.db)
             /\ IF fault = "log"
                THEN End(p, o, r1.db, "OperationalError", "log_failed", None, None)
                ELSE IF r2.err # "none"
                THEN End(p, o, r1.db, "ValueError", "exists", None, None)
                ELSE IF fault = "commit"
                THEN End(p, o, r2.db, "OperationalError", "commit_failed", None, None)
                ELSE End(p, o, r2.db, "none", "success", None, product)

\* create_product that checks the name after its with-block has committed.
create_product_checks_name_late(p) ==
    /\ MayBegin(p)
    /\ \E c \in CreateInputs :
         LET o == Call("create", c[1], 0, c[2])
             r1 == InsertProduct(db, o.product_name, o.amount, clock)
             r2 == log_transaction(r1.db, r1.db.seq_products, "CREATE", None,
                                   o.amount, clock)
         IN  IF o.amount < 0 THEN Reject(p, o, "ValueError", "negative")
             ELSE IF r1.err # "none"
             THEN End(p, o, db, "ValueError", "exists", None, None)
             ELSE /\ Room(r2.db)
                  /\ IF isalnum(o.product_name)
                     THEN End(p, o, r2.db, "none", "success", None,
                              SelectProduct(r2.db, r1.db.seq_products))
                     ELSE /\ db' = r2.db
                          /\ last' = [op |-> o, exc |-> "ValueError",
                                      msg |-> "not_alnum", old |-> None,
                                      product |-> None, result |-> None]
                          /\ UNCHANGED <<clock, pc, op, old_quantity, locals>>

\* create_product(product_name, quantity) with the arguments of call o.
create_product_call(p, o) ==
    IF ~isalnum(o.product_name) THEN Reject(p, o, "ValueError", "not_alnum")
    ELSE IF o.amount < 0 THEN Reject(p, o, "ValueError", "negative")
    ELSE \E fault \in Faults : create_product_block(p, o, fault)

create_product(p) ==
    /\ MayBegin(p)
    /\ \E c \in CreateInputs :
         create_product_call(p, Call("create", c[1], 0, c[2]))

(* ------------- the part the quantity handlers have in common ----------- *)

\* SELECT id, quantity FROM products WHERE id = ?; a missing product raises.
\* The stock check with >= for >.
InStock_off_by_one(old, order_quantity) == ~(order_quantity >= old)

\* if order_quantity > old_quantity: raise ValueError("Insufficient stock ...")
InStock(old, order_quantity) == ~(order_quantity > old)

\* checked: the handler checks the stock it read against the amount.
SelectStep(p, o, checked, msg) ==
    LET product == SelectProduct(db, o.product_id)
    IN  IF product = None THEN End(p, o, db, "ValueError", "not_found", None, None)
        ELSE IF checked /\ ~InStock(product[1].quantity, o.amount)
        THEN End(p, o, db, "ValueError", msg, Some(product[1].quantity), None)
        ELSE /\ pc' = [pc EXCEPT ![p] = "write"]
             /\ op' = [op EXCEPT ![p] = o]
             /\ old_quantity' = [old_quantity EXCEPT ![p] = Some(product[1].quantity)]
             /\ last' = NoLast
             /\ UNCHANGED <<db, clock, locals>>

\* UPDATE the quantity, log_transaction(cursor, product_id, type,
\* old_quantity, new_quantity), SELECT the product again and return it.
WriteStep(p, type, new_quantity, fault) ==
    LET o == op[p]
        old == old_quantity[p]
        r1 == UpdateQuantity(db, o.product_id, new_quantity, clock)
        r2 == log_transaction(r1.db, o.product_id, type, old, new_quantity, clock)
        product == SelectProduct(r2.db, o.product_id)
    IN  IF r1.err # "none" THEN End(p, o, r1.db, r1.err, "constraint", old, None)
        ELSE IF fault = "log"
        THEN End(p, o, r1.db, "OperationalError", "log_failed", old, None)
        ELSE IF r2.err # "none" THEN End(p, o, r1.db, r2.err, "constraint", old, None)
        ELSE /\ Room(r2.db)
             /\ IF product = None THEN End(p, o, r2.db, "TypeError", "no_row", old, None)
                ELSE IF fault = "commit"
                THEN End(p, o, r2.db, "OperationalError", "commit_failed", old, None)
                ELSE End(p, o, r2.db, "none", "success", old, product)

(* ------------------------ update_product_quantity ---------------------- *)

update_new_quantity(old, new_quantity) == new_quantity

update_product_quantity_select(p) ==
    /\ MayBegin(p)
    /\ \E a \in AmountInputs(SetQuantities, {q \in SetQuantities : ~(q < 0)}) :
         LET id == a[1]
             new_quantity == a[2]
             o == Call("update", <<>>, id, new_quantity)
         IN  IF new_quantity < 0 THEN Reject(p, o, "ValueError", "negative")
             ELSE SelectStep(p, o, FALSE, "none")

update_product_quantity_write(p) ==
    /\ MayWrite(p, "update")
    /\ \E fault \in Faults :
         WriteStep(p, "UPDATE", update_new_quantity(old_quantity[p][1], op[p].amount),
                   fault)

update_product_quantity(p) ==
    \/ update_product_quantity_select(p)
    \/ update_product_quantity_write(p)

(* ------------------------ add_quantity_to_product ---------------------- *)

\* new_quantity = add_quantity, the old quantity forgotten.
add_new_quantity_forgets_old(old, add_quantity) == add_quantity

add_new_quantity(old, add_quantity) == old + add_quantity

add_quantity_to_product_select(p) ==
    /\ MayBegin(p)
    /\ \E a \in AmountInputs(Deltas, {q \in Deltas : ~(q <= 0)}) :
         LET id == a[1]
             add_quantity == a[2]
             o == Call("add", <<>>, id, add_quantity)
         IN  IF add_quantity <= 0 THEN Reject(p, o, "ValueError", "not_positive")
             ELSE SelectStep(p, o, FALSE, "none")

add_quantity_to_product_write(p) ==
    /\ MayWrite(p, "add")
    /\ \E fault \in Faults :
         WriteStep(p, "ADD_QUANTITY", add_new_quantity(old_quantity[p][1], op[p].amount),
                   fault)

add_quantity_to_product(p) ==
    \/ add_quantity_to_product_select(p)
    \/ add_quantity_to_product_write(p)

(* ----------------------------- order_product --------------------------- *)

order_new_quantity(old, order_quantity) == old - order_quantity

\* order_product that reads the product before it checks the amount.
order_product_select_reads_first(p) ==
    /\ MayBegin(p)
    /\ \E a \in AmountInputs(Deltas, {q \in Deltas : ~(q <= 0)}) :
         LET id == a[1]
             order_quantity == a[2]
             o == Call("order", <<>>, id, order_quantity)
         IN  IF SelectProduct(db, id) = None
             THEN End(p, o, db, "ValueError", "not_found", None, None)
             ELSE IF order_quantity <= 0 THEN Reject(p, o, "ValueError", "not_positive")
             ELSE SelectStep(p, o, TRUE, "insufficient")

order_product_select(p) ==
    /\ MayBegin(p)
    /\ \E a \in AmountInputs(Deltas, {q \in Deltas : ~(q <= 0)}) :
         LET id == a[1]
             order_quantity == a[2]
             o == Call("order", <<>>, id, order_quantity)
         IN  IF order_quantity <= 0 THEN Reject(p, o, "ValueError", "not_positive")
             ELSE SelectStep(p, o, TRUE, "insufficient")

\* order_product logging its entry as 'UPDATE'.
order_product_write_logs_update(p) ==
    /\ MayWrite(p, "order")
    /\ \E fault \in Faults :
         WriteStep(p, "UPDATE", order_new_quantity(old_quantity[p][1], op[p].amount),
                   fault)

order_product_write(p) ==
    /\ MayWrite(p, "order")
    /\ \E fault \in Faults :
         WriteStep(p, "ORDER", order_new_quantity(old_quantity[p][1], op[p].amount),
                   fault)

\* order_product without its stock check, on a products table without its
\* CHECK constraint.
order_product_unchecked(p) ==
    \/ /\ MayBegin(p)
       /\ \E a \in AmountInputs(Deltas, {q \in Deltas : ~(q <= 0)}) :
            SelectStep(p, Call("order", <<>>, a[1], a[2]), FALSE, "none")
    \/ /\ MayWrite(p, "order")
       /\ LET new == order_new_quantity(old_quantity[p][1], op[p].amount)
              d == [db EXCEPT !.products =
                       {IF r.id = op[p].product_id THEN [r EXCEPT !.quantity = new]
                                                   ELSE r : r \in @}]
              r2 == log_transaction(d, op[p].product_id, "ORDER", old_quantity[p],
                                    new, clock)
          IN  /\ Room(r2.db)
              /\ End(p, op[p], r2.db, r2.err, "success", old_quantity[p], None)

order_product(p) ==
    \/ order_product_select(p)
    \/ order_product_write(p)

(* ----------------------------- delete_product -------------------------- *)

\* SELECT product_name FROM products WHERE id = ?; a missing product
\* raises; product_name is kept for the message the function returns.
delete_product_select(p) ==
    /\ MayBegin(p)
    /\ \E id \in IdInputs :
         LET product == SelectProduct(db, id)
             product_name == IF product = None THEN <<>> ELSE product[1].product_name
             o == Call("delete", product_name, id, 0)
         IN  SelectStep(p, o, FALSE, "none")

\* DELETE FROM products WHERE id = ?; return; the connection commits.
delete_product_write(p) ==
    /\ MayWrite(p, "delete")
    /\ \E fault \in Faults \ {"log"} :
         LET r == DeleteProductRow(db, op[p].product_id)
         IN  IF fault = "commit"
             THEN End(p, op[p], r.db, "OperationalError", "commit_failed", None, None)
             ELSE End(p, op[p], r.db, "none", "success", None, None)

delete_product(p) ==
    \/ delete_product_select(p)
    \/ delete_product_write(p)

(* ------------------- the HTTP adapter (src/main.py) -------------------- *)

\* ProductCreate.product_name: max_length.
max_length == 100

\* A name of max_length + 1 alphanumeric characters.
LongName == [i \in 1..(max_length + 1) |-> "a"]

\* str_strip_whitespace / str.strip(): leading and trailing blanks removed.
RECURSIVE strip(_)
strip(s) ==
    IF s = <<>> THEN s
    ELSE IF Head(s) = " " THEN strip(Tail(s))
    ELSE IF s[Len(s)] = " " THEN strip(SubSeq(s, 1, Len(s) - 1))
    ELSE s

\* The ProductCreate model: the stripped name has 1 to max_length
\* characters, all alphanumeric, and the quantity is not negative.
ProductCreate(product_name, quantity) ==
    /\ Len(strip(product_name)) >= 1
    /\ Len(strip(product_name)) <= max_length
    /\ isalnum(strip(product_name))
    /\ quantity >= 0

\* Request bodies of POST /products.
RouteCreateInputs ==
    { <<<<"a">>, 2>>, <<<<"a", " ">>, 0>>, <<<<"A">>, 0>>, <<<<>>, 0>>, <<<<"a", "-">>, 0>>,
      <<<<"a">>, -1>>, <<LongName, 0>> }

\* POST /products: the body is validated (422 without a call of the
\* store), then database.create_product is called with its fields.
route_create_product(p) ==
    /\ MayBegin(p)
    /\ \E c \in RouteCreateInputs :
         IF ~ProductCreate(c[1], c[2])
         THEN Reject(p, Call("create", c[1], 0, c[2]), "RequestValidationError",
                     "unprocessable")
         ELSE create_product_call(p, Call("create", strip(c[1]), 0, c[2]))

\* The status a route answers with when the store's function it called
\* ended with exc: the except clauses of the route, and FastAPI's 422.
http_status(kind, exc) ==
    IF exc = "RequestValidationError" THEN 422
    ELSE IF kind = "create"
    THEN (IF exc = "none" THEN 201 ELSE IF exc = "ValueError" THEN 400 ELSE 500)
    ELSE IF kind \in {"update", "add", "order"}
    THEN (IF exc = "none" THEN 200
          ELSE IF exc = "ValueError" THEN 400
          ELSE IF exc = "LookupError" THEN 404
          ELSE 500)
    ELSE IF kind = "product_transactions" /\ exc = "HTTPException" THEN 404
    ELSE (IF exc = "none" THEN 200 ELSE IF exc = "LookupError" THEN 404 ELSE 500)

\* database.create_product called by Python code with any name.
LedgerCreateInputs == CreateInputs \cup { <<LongName, 0>> }

ledger_create_product(p) ==
    /\ MayBegin(p)
    /\ \E c \in LedgerCreateInputs :
         create_product_call(p, Call("create", c[1], 0, c[2]))

(* ------------------ the menu (src/inventory_management.py) ------------- *)
(* The menu works on the same database file with its own copy of the      *)
(* statements.  It finds products by name, prints what goes wrong and     *)
(* raises nothing to its caller: exc is the exception that ended the      *)
(* with-block, msg what was printed.                                       *)

\* get_integer_input: asks again until the number is not negative.
get_integer_input(values) == {v \in values : ~(v < 0)}

\* str.lower() on the characters of the model.
lower(s) == [i \in 1..Len(s) |-> IF s[i] = "A" THEN "a" ELSE s[i]]

\* What the user types at a name prompt, stripped.
CliNameInputs == { strip(n) : n \in NameInputs \cup { <<"a", " ">>, LongName } }

\* A name with each quantity, the other names with the least.
CliInputs(names, amounts) ==
    {c \in names \X get_integer_input(amounts) :
        c[1] = <<"a">> \/ \A v \in get_integer_input(amounts) : c[2] <= v}

\* SELECT id, quantity FROM products WHERE product_name = ?; fetchone.
SelectByName(d, name) ==
    LET found == {r \in d.products : r.product_name = name}
    IN  IF found = {} THEN None ELSE Some(CHOOSE r \in found : TRUE)

\* The expression read as new_quantity - (old_quantity if ... else new_quantity).
cli_change_amount_misparsed(old, new) == new - (IF old # None THEN old[1] ELSE new)

\* change_amount = new_quantity - old_quantity if old_quantity is not None
\* else new_quantity
cli_change_amount(old, new) == IF old # None THEN new - old[1] ELSE new

cli_log_transaction(d, pid, type, old, new, now) ==
    InsertTransaction(d, pid, type, old, new, cli_change_amount(old, new), now)

\* add_product, one turn of its loop up to the quantity prompt: the name
\* check, 'quit', and the SELECT for a product of that name.
cli_add_product_select(p) ==
    /\ MayBegin(p)
    /\ \E c \in CliInputs(CliNameInputs, CreateQuantities) :
         LET o == Call("cli_add", c[1], 0, c[2])
         IN  IF ~isalnum(o.product_name)
             THEN End(p, o, db, "none", "invalid_name", None, None)
             ELSE IF lower(o.product_name) = <<"q", "u", "i", "t">>
             THEN End(p, o, db, "none", "quit", None, None)
             ELSE IF o.product_name = <<>>
             THEN End(p, o, db, "none", "empty_name", None, None)
             ELSE IF SelectByName(db, o.product_name) # None
             THEN End(p, o, db, "none", "exists", None, None)
             ELSE /\ pc' = [pc EXCEPT ![p] = "write"]
                  /\ op' = [op EXCEPT ![p] = o]
                  /\ last' = NoLast
                  /\ UNCHANGED <<db, clock, old_quantity, locals>>

\* add_product from its INSERT: the product, then the entry 'ADD' with
\* old_quantity 0.
cli_add_product_write(p) ==
    /\ MayWrite(p, "cli_add")
    /\ \E fault \in Faults :
         LET o == op[p]
             r1 == InsertProduct(db, o.product_name, o.amount, clock)
             r2 == cli_log_transaction(r1.db, r1.db.seq_products, "ADD", Some(0),
                                       o.amount, clock)
         IN  IF r1.err # "none"
             THEN End(p, o, r1.db, r1.err, "exists", None, None)
             ELSE /\ Room(r2.db)
                  /\ IF fault = "log"
                     THEN End(p, o, r1.db, "OperationalError", "log_failed", None, None)
                     ELSE IF r2.err # "none"
                     THEN End(p, o, r1.db, r2.err, "exists", None, None)
                     ELSE IF fault = "commit"
                     THEN End(p, o, r2.db, "OperationalError", "commit_failed", None, None)
                     ELSE End(p, o, r2.db, "none", "success", None, None)

cli_add_product(p) == cli_add_product_select(p) \/ cli_add_product_write(p)

\* The part the menu's quantity functions have in common up to the UPDATE:
\* the name prompt, the SELECT by name and, for an order, the checks of the
\* quantity asked for then.
cli_SelectStep(p, o, order) ==
    LET product == SelectByName(db, o.product_name)
    IN  IF o.product_name = <<>>
        THEN End(p, o, db, "none", "empty_name", None, None)
        ELSE IF product = None
        THEN End(p, o, db, "none", "not_found", None, None)
        ELSE IF order /\ o.amount <= 0
        THEN End(p, o, db, "none", "not_positive", Some(product[1].quantity), None)
        ELSE IF order /\ o.amount > product[1].quantity
        THEN End(p, o, db, "none", "insufficient", Some(product[1].quantity), None)
        ELSE /\ pc' = [pc EXCEPT ![p] = "write"]
             /\ op' = [op EXCEPT ![p] = [o EXCEPT !.product_id = product[1].id]]
             /\ old_quantity' = [old_quantity EXCEPT ![p] = Some(product[1].quantity)]
             /\ last' = NoLast
             /\ UNCHANGED <<db, clock, locals>>

\* UPDATE the quantity and log_transaction; the with-block ends.
cli_WriteStep(p, type, new_quantity, fault) ==
    LET o == op[p]
        r1 == UpdateQuantity(db, o.product_id, new_quantity, clock)
        r2 == cli_log_transaction(r1.db, o.product_id, type, old_quantity[p],
                                  new_quantity, clock)
    IN  IF r1.err # "none"
        THEN End(p, o, r1.db, r1.err, "constraint", old_quantity[p], None)
        ELSE IF fault = "log"
        THEN End(p, o, r1.db, "OperationalError", "log_failed", old_quantity[p], None)
        ELSE IF r2.err # "none"
        THEN End(p, o, r1.db, r2.err, "constraint", old_quantity[p], None)
        ELSE /\ Room(r2.db)
             /\ IF fault = "commit"
                THEN End(p, o, r2.db, "OperationalError", "commit_failed",
                         old_quantity[p], None)
                ELSE End(p, o, r2.db, "none", "success", old_quantity[p], None)

cli_update_product_quantity(p) ==
    \/ /\ MayBegin(p)
       /\ \E c \in CliInputs(CliNameInputs \ {LongName}, SetQuantities) :
            cli_SelectStep(p, Call("cli_update", c[1], 0, c[2]), FALSE)
    \/ /\ MayWrite(p, "cli_update")
       /\ \E fault \in Faults : cli_WriteStep(p, "UPDATE", op[p].amount, fault)

cli_add_quantity_to_product(p) ==
    \/ /\ MayBegin(p)
       /\ \E c \in CliInputs(CliNameInputs \ {LongName}, Deltas) :
            cli_SelectStep(p, Call("cli_add_quantity", c[1], 0, c[2]), FALSE)
    \/ /\ MayWrite(p, "cli_add_quantity")
       /\ \E fault \in Faults :
            cli_WriteStep(p, "ADD_QUANTITY", old_quantity[p][1] + op[p].amount, fault)

cli_order_product(p) ==
    \/ /\ MayBegin(p)
       /\ \E c \in CliInputs(CliNameInputs \ {LongName}, Deltas) :
            cli_SelectStep(p, Call("cli_order", c[1], 0, c[2]), TRUE)
    \/ /\ MayWrite(p, "cli_order")
       /\ \E fault \in Faults :
            cli_WriteStep(p, "ORDER", old_quantity[p][1] - op[p].amount, fault)

(* ------------------------------ environment ---------------------------- *)

\* The outcome of the call that ended reaches its caller.
Respond ==
    /\ last # NoLast
    /\ last' = NoLast
    /\ UNCHANGED <<db, clock, pc, op, old_quantity, locals>>

\* A second passes.
Tick ==
    /\ last = NoLast
    /\ clock < MaxClock
    /\ clock' = clock + 1
    /\ last' = NoLast
    /\ UNCHANGED <<db, pc, op, old_quantity, locals>>

\* Concurrent callers, all within one second of the clock.
Next ==
    \/ \E p \in Procs :
          \/ create_product(p)
          \/ update_product_quantity(p)
          \/ add_quantity_to_product(p)
          \/ order_product(p)
          \/ delete_product(p)
    \/ Respond

Spec == Init /\ [][Next]_vars

\* One caller, one call after the other, while the clock advances.
SeqNext ==
    \/ create_product(1)
    \/ update_product_quantity(1)
    \/ add_quantity_to_product(1)
    \/ order_product(1)
    \/ delete_product(1)
    \/ Respond
    \/ Tick

SeqSpec == Init /\ [][SeqNext]_vars

\* One caller at a time through every way into the store: the store's
\* functions called from Python, the POST /products route, the menu.
EntryNext ==
    \/ ledger_create_product(1)
    \/ route_create_product(1)
    \/ update_product_quantity(1)
    \/ add_quantity_to_product(1)
    \/ order_product(1)
    \/ delete_product(1)
    \/ cli_add_product(1)
    \/ cli_update_product_quantity(1)
    \/ cli_add_quantity_to_product(1)
    \/ cli_order_product(1)
    \/ Respond
    \/ Tick

EntrySpec == Init /\ [][EntryNext]_vars

(* ------------------------- reading the ledger -------------------------- *)

Product(d, id) == SelectProduct(d, id)[1]

Entries(d, id) == {t \in d.transactions : t.product_id = id}

\* SELECT * FROM products WHERE id = ?: the row or None.
get_product_by_id(d, id) == SelectProduct(d, id)

\* FROM inventory_transactions t JOIN products p ON t.product_id = p.id:
\* the entries the two listings select from.
Joined(d) == {t \in d.transactions : \E r \in d.products : r.id = t.product_id}

\* ... WHERE t.product_id = ?
get_transactions_by_product(d, id) == {t \in Joined(d) : t.product_id = id}

\* The entries S in performed_at order, entries of one second in id order.
RECURSIVE InOrder(_)
InOrder(S) ==
    IF S = {} THEN <<>>
    ELSE LET first == CHOOSE t \in S : \A u \in S :
                          \/ t.performed_at < u.performed_at
                          \/ t.performed_at = u.performed_at /\ t.id <= u.id
         IN  <<first>> \o InOrder(S \ {first})

\* The quantity the entries of a log give when applied one after the other,
\* from the new_quantity of the first on.
RECURSIVE Apply(_, _)
Apply(q, log) ==
    IF log = <<>> THEN q ELSE Apply(q + log[1].change_amount, Tail(log))

Replay(log) == Apply(log[1].new_quantity, Tail(log))

\* The newest entry of a non-empty set of entries.
Newest(S) == CHOOSE t \in S : \A u \in S : u.id <= t.id

\* A call ends in this step; last' holds the call and its outcome.
Ends == last = NoLast /\ last' # NoLast

\* Caller p's call ends in this step with its write block.
Wrote(p) == pc[p] = "write" /\ pc'[p] = "idle"

\* The store the call o gives when it runs alone from store d at time now,
\* without a failure of the store: the handler's rules applied to the
\* quantity d holds.
SerialOutcome(d, o, now) ==
    LET row == SelectProduct(d, o.product_id)
        old == row[1].quantity
        new == CASE o.kind = "update" -> o.amount
                 [] o.kind = "add" -> old + o.amount
                 [] o.kind = "order" -> old - o.amount
                 [] OTHER -> 0
        type == CASE o.kind = "update" -> "UPDATE"
                  [] o.kind = "add" -> "ADD_QUANTITY"
                  [] OTHER -> "ORDER"
    IN  IF row = None THEN d
        ELSE IF o.kind = "delete" THEN DeleteProductRow(d, o.product_id).db
        ELSE IF new < 0 THEN d
        ELSE log_transaction(UpdateQuantity(d, o.product_id, new, now).db,
                             o.product_id, type, Some(old), new, now).db

(* ------------------------ the reading functions ------------------------ *)
(* A reading function runs its SELECTs on a connection of its own.  No     *)
(* transaction is open around a SELECT, so each SELECT sees the store as   *)
(* committed when it runs and is one step.                                  *)

\* The code point of a character: product_name is compared as BINARY.
ord(c) ==
    CASE c = " " -> 32 [] c = "-" -> 45 [] c = "7" -> 55
      [] c = "A" -> 65 [] c = "a" -> 97 [] c = "b" -> 98

\* product_name s sorts before product_name t.
RECURSIVE NameLess(_, _)
NameLess(s, t) ==
    IF t = <<>> THEN FALSE
    ELSE IF s = <<>> THEN TRUE
    ELSE IF ord(Head(s)) # ord(Head(t)) THEN ord(Head(s)) < ord(Head(t))
    ELSE NameLess(Tail(s), Tail(t))

\* ORDER BY product_name, on rows with different names.
RECURSIVE OrderByName(_)
OrderByName(rows) ==
    IF rows = {} THEN <<>>
    ELSE LET first == CHOOSE r \in rows :
                          \A u \in rows : u = r \/ NameLess(r.product_name, u.product_name)
         IN  <<first>> \o OrderByName(rows \ {first})

\* The CASE with 'Low Stock' up to quantity 5.
stock_status_low_to_five(quantity) ==
    IF quantity = 0 THEN "Out of Stock"
    ELSE IF quantity <= 5 THEN "Low Stock"
    ELSE "In Stock"

\* CASE WHEN quantity = 0 THEN 'Out of Stock' WHEN quantity < 5 THEN
\* 'Low Stock' ELSE 'In Stock' END
stock_status(quantity) ==
    IF quantity = 0 THEN "Out of Stock"
    ELSE IF quantity < 5 THEN "Low Stock"
    ELSE "In Stock"

\* get_all_products: every row of products with its stock_status, by name.
get_all_products(d) ==
    OrderByName({ [id |-> r.id, product_name |-> r.product_name,
                   quantity |-> r.quantity, created_at |-> r.created_at,
                   updated_at |-> r.updated_at,
                   stock_status |-> stock_status(r.quantity)] : r \in d.products })

\* SELECT * FROM products WHERE product_name = ?: the row or None.
get_product_by_name(d, product_name) == SelectByName(d, product_name)

\* The rows view_inventory prints: the same SELECT without the id.
view_inventory_rows(d) ==
    OrderByName({ [product_name |-> r.product_name, quantity |-> r.quantity,
                   created_at |-> r.created_at, updated_at |-> r.updated_at,
                   stock_status |-> stock_status(r.quantity)] : r \in d.products })

\* The columns the two listings of the log select for entry t.
TransactionColumns(d, t) ==
    [id |-> t.id, product_name |-> Product(d, t.product_id).product_name,
     transaction_type |-> t.transaction_type, old_quantity |-> t.old_quantity,
     new_quantity |-> t.new_quantity, change_amount |-> t.change_amount,
     performed_at |-> t.performed_at]

\* ORDER BY t.performed_at DESC: the orders the statement may return the rows
\* S in.  performed_at is CURRENT_TIMESTAMP, a time in seconds, and SQL leaves
\* open the order of rows with equal keys.
RECURSIVE OrderByPerformedAtDesc(_)
OrderByPerformedAtDesc(S) ==
    IF S = {} THEN { <<>> }
    ELSE UNION { { <<t>> \o s : s \in OrderByPerformedAtDesc(S \ {t}) } :
                 t \in {t \in S : \A u \in S : u.performed_at <= t.performed_at} }

\* LIMIT ?
Limit(rows, limit) == SubSeq(rows, 1, IF limit < Len(rows) THEN limit ELSE Len(rows))

\* get_all_transactions(limit: int = 50)
default_limit == 50

\* The lists database.get_all_transactions(limit) may return.
get_all_transactions(d, limit) ==
    { Limit(rows, limit) :
        rows \in OrderByPerformedAtDesc({TransactionColumns(d, t) : t \in Joined(d)}) }

\* The lists database.get_transactions_by_product(product_id) may return.
get_transactions_by_product_rows(d, product_id) ==
    OrderByPerformedAtDesc({TransactionColumns(d, t) :
                              t \in get_transactions_by_product(d, product_id)})

\* The four SELECTs of get_database_stats.
RECURSIVE Sum(_)
Sum(rows) ==
    IF rows = {} THEN 0
    ELSE LET r == CHOOSE r \in rows : TRUE IN r.quantity + Sum(rows \ {r})

product_count(d) == Cardinality(d.products)
transaction_count(d) == Cardinality(d.transactions)
\* SUM(quantity) is NULL on an empty table: total_stock is "... or 0".
total_stock(d) == IF d.products = {} THEN 0 ELSE Sum(d.products)
out_of_stock_count(d) == Cardinality({r \in d.products : r.quantity = 0})

(* --------------------- the calls that read the store ------------------- *)

\* A call of a reading function or route, with its arguments.
ReadCall(kind, product_name, product_id, args) ==
    [kind |-> kind, product_name |-> product_name, product_id |-> product_id,
     amount |-> 0, args |-> args]

\* Caller p may begin a reading call.
ReadBegin(p) == last = NoLast /\ pc[p] = "idle"

\* Caller p may go on with the reading call it is in at step.
ReadStep(p, step) == last = NoLast /\ pc[p] = step

\* The reading call o of caller p ends: its connection, which has written
\* nothing, is committed or rolled back and closed, the result goes to the
\* caller.
Return(p, o, exc, msg, result) ==
    /\ db' = ConnExit(db, db, exc # "none")
    /\ pc' = [pc EXCEPT ![p] = "idle"]
    /\ op' = [op EXCEPT ![p] = NoOp]
    /\ locals' = [locals EXCEPT ![p] = None]
    /\ last' = [op |-> o, exc |-> exc, msg |-> msg, old |-> None, product |-> None,
                result |-> result]
    /\ UNCHANGED <<clock, old_quantity>>

\* The reading call o of caller p goes on to step with what it has fetched.
Fetched(p, o, step, fetched) ==
    /\ pc' = [pc EXCEPT ![p] = step]
    /\ op' = [op EXCEPT ![p] = o]
    /\ locals' = [locals EXCEPT ![p] = fetched]
    /\ last' = NoLast
    /\ UNCHANGED <<db, clock, old_quantity>>

\* database.get_all_products(), also behind GET /products/; the SELECT may
\* fail in the store.
list_products(p) ==
    /\ ReadBegin(p)
    /\ \E fault \in {"none", "select"} :
         LET o == ReadCall("get_all_products", <<>>, 0, None)
         IN  IF fault = "select"
             THEN Return(p, o, "OperationalError", "select_failed", None)
             ELSE Return(p, o, "none", "success", Some(get_all_products(db)))

\* database.get_product_by_id(product_id)
read_product_by_id(p) ==
    /\ ReadBegin(p)
    /\ \E id \in IdInputs :
         Return(p, ReadCall("get_product_by_id", <<>>, id, None), "none", "success",
                Some(get_product_by_id(db, id)))

\* database.get_product_by_name(product_name)
read_product_by_name(p) ==
    /\ ReadBegin(p)
    /\ \E name \in { <<"a">>, <<"A">> } :
         Return(p, ReadCall("get_product_by_name", name, 0, None), "none", "success",
                Some(get_product_by_name(db, name)))

\* sub in s, for strings.
Contains(s, sub) ==
    \E i \in 0..(Len(s) - Len(sub)) : SubSeq(s, i + 1, i + Len(sub)) = sub

\* The loop body of search_products: product passes the filters of query q.
Passes(product, q) ==
    /\ ~(/\ q.name # None /\ q.name[1] # <<>>
         /\ ~Contains(lower(product.product_name), lower(q.name[1])))
    /\ ~(q.min_quantity # None /\ product.quantity < q.min_quantity[1])
    /\ ~(q.max_quantity # None /\ product.quantity > q.max_quantity[1])
    /\ ~(q.instock # None /\ q.instock[1] /\ product.quantity <= 0)
    /\ ~(q.instock # None /\ ~q.instock[1] /\ product.quantity > 0)

RECURSIVE filtered_products(_, _)
filtered_products(all_products, q) ==
    IF all_products = <<>> THEN <<>>
    ELSE (IF Passes(Head(all_products), q) THEN <<Head(all_products)>> ELSE <<>>)
         \o filtered_products(Tail(all_products), q)

\* Query strings of GET /search: each parameter supplied or not.
SearchInputs ==
    [name : {None, Some(<<"A">>)},
     min_quantity : {None, Some(0), Some(3)},
     max_quantity : {None, Some(2)},
     instock : {None, Some(TRUE), Some(FALSE)}]
    \cup { [name |-> None, min_quantity |-> Some(-1), max_quantity |-> None,
            instock |-> None] }

\* Query(None, ge=0) of min_quantity and max_quantity.
SearchQuery(q) ==
    /\ q.min_quantity # None => q.min_quantity[1] >= 0
    /\ q.max_quantity # None => q.max_quantity[1] >= 0

\* GET /search.  In the try block: get_all_products, then
\* "min_quantity > max_quantity and ... is not None", which raises TypeError
\* when one of them is None and otherwise, when it holds, the HTTPException
\* with status 400; then the loop.  exc is the exception of the try block.
search_products(p) ==
    /\ ReadBegin(p)
    /\ \E q \in SearchInputs :
         LET o == ReadCall("search", <<>>, 0, q)
         IN  IF ~SearchQuery(q)
             THEN Return(p, o, "RequestValidationError", "unprocessable", None)
             ELSE IF q.min_quantity = None \/ q.max_quantity = None
             THEN Return(p, o, "TypeError", "not_supported", None)
             ELSE IF q.min_quantity[1] > q.max_quantity[1]
             THEN Return(p, o, "HTTPException", "min_gt_max", None)
             ELSE Return(p, o, "none", "success",
                         Some(filtered_products(get_all_products(db), q)))

\* database.get_all_transactions(limit) called by Python code.
LimitInputs == {1, 2}

read_all_transactions(p) ==
    /\ ReadBegin(p)
    /\ \E limit \in LimitInputs : \E rows \in get_all_transactions(db, limit) :
         Return(p, ReadCall("get_all_transactions", <<>>, 0, Some(limit)),
                "none", "success", Some(rows))

\* The limit parameter of GET /transactions/: not supplied, or a number.
RouteLimitInputs == {None, Some(0), Some(1), Some(1001)}

\* GET /transactions/: limit is Query(50, ge=1, le=1000); the route calls
\* database.get_all_transactions() without it.
route_get_all_transactions(p) ==
    /\ ReadBegin(p)
    /\ \E limit \in RouteLimitInputs :
         LET o == ReadCall("transactions", <<>>, 0, limit)
         IN  IF limit # None /\ ~(limit[1] >= 1 /\ limit[1] <= 1000)
             THEN Return(p, o, "RequestValidationError", "unprocessable", None)
             ELSE \E rows \in get_all_transactions(db, default_limit) :
                     Return(p, o, "none", "success", Some(rows))

\* database.get_transactions_by_product(product_id) called by Python code.
read_transactions_by_product(p) ==
    /\ ReadBegin(p)
    /\ \E id \in IdInputs : \E rows \in get_transactions_by_product_rows(db, id) :
         Return(p, ReadCall("get_transactions_by_product", <<>>, id, None),
                "none", "success", Some(rows))

\* GET /products/{product_id}/transactions: get_product_by_id on one
\* connection, 404 when it gives None, ...
get_product_transactions_check(p) ==
    /\ ReadBegin(p)
    /\ \E id \in IdInputs :
         LET o == ReadCall("product_transactions", <<>>, id, None)
         IN  IF get_product_by_id(db, id) = None
             THEN Return(p, o, "HTTPException", "not_found", None)
             ELSE Fetched(p, o, "transactions", None)

\* ... then get_transactions_by_product on another.
get_product_transactions_read(p) ==
    /\ ReadStep(p, "transactions")
    /\ \E rows \in get_transactions_by_product_rows(db, op[p].product_id) :
         Return(p, op[p], "none", "success", Some(rows))

get_product_transactions(p) ==
    \/ get_product_transactions_check(p)
    \/ get_product_transactions_read(p)

\* get_database_stats, also behind GET /stats: four SELECTs on one
\* connection, one after the other.
get_database_stats(p) ==
    \/ /\ ReadBegin(p)
       /\ Fetched(p, ReadCall("stats", <<>>, 0, None), "transaction_count",
                  [product_count |-> product_count(db)])
    \/ /\ ReadStep(p, "transaction_count")
       /\ Fetched(p, op[p], "total_stock",
                  [product_count |-> locals[p].product_count,
                   transaction_count |-> transaction_count(db)])
    \/ /\ ReadStep(p, "total_stock")
       /\ Fetched(p, op[p], "out_of_stock_count",
                  [product_count |-> locals[p].product_count,
                   transaction_count |-> locals[p].transaction_count,
                   total_stock |-> total_stock(db)])
    \/ /\ ReadStep(p, "out_of_stock_count")
       /\ Return(p, op[p], "none", "success",
                 Some([product_count |-> locals[p].product_count,
                       transaction_count |-> locals[p].transaction_count,
                       total_stock |-> locals[p].total_stock,
                       out_of_stock_count |-> out_of_stock_count(db)]))

\* view_inventory of the menu.
view_inventory(p) ==
    /\ ReadBegin(p)
    /\ LET o == ReadCall("cli_view_inventory", <<>>, 0, None)
       IN  IF view_inventory_rows(db) = <<>>
           THEN Return(p, o, "none", "empty", Some(<<>>))
           ELSE Return(p, o, "none", "printed", Some(view_inventory_rows(db)))

\* view_transaction_log of the menu: the listing with LIMIT 50.
view_transaction_log(p) ==
    /\ ReadBegin(p)
    /\ \E rows \in get_all_transactions(db, 50) :
         LET o == ReadCall("cli_view_transaction_log", <<>>, 0, None)
         IN  IF rows = <<>>
             THEN Return(p, o, "none", "empty", Some(rows))
             ELSE Return(p, o, "none", "printed", Some(rows))

\* The tables of the database file, each on pages of its own.
Tables == {"products", "inventory_transactions"}

\* The file at DB_PATH after copy2 made it the file at DB_PATH again: moved
\* to the backup folder, the store is empty.
copy2_source_moved(d) == EmptyDb

\* shutil.copy2(DB_PATH, backup_path) reads the file at DB_PATH and leaves it
\* as it is.
copy2_source(d) == d

\* backup_database of database.py (behind POST /backup) and of the menu:
\* copy2 of the database file, with no connection and no lock of the store.
\* A commit of another connection writes its pages into the file one after
\* the other, and the copy reads the file while it does: the pages of one
\* table are copied as they are before a commit, those of the other as they
\* are after it.
backup_database_begin(p) ==
    /\ ReadBegin(p)
    /\ \E kind \in {"backup", "cli_backup"} : \E first \in Tables :
         Fetched(p, ReadCall(kind, <<>>, 0, None), "copy",
                 [first |-> first,
                  rows |-> IF first = "products" THEN db.products ELSE db.transactions])

\* The rest of the file is copied, or copy2 raises: RuntimeError from
\* database.backup_database, a printed message from the menu.
backup_database_rest(p) ==
    /\ ReadStep(p, "copy")
    /\ \E fault \in {"none", "copy"} :
         LET copy == [products |-> IF locals[p].first = "products"
                                   THEN locals[p].rows ELSE db.products,
                      transactions |-> IF locals[p].first = "products"
                                       THEN db.transactions ELSE locals[p].rows]
             raised == IF op[p].kind = "backup" THEN "RuntimeError" ELSE "none"
         IN  /\ db' = copy2_source(db)
             /\ pc' = [pc EXCEPT ![p] = "idle"]
             /\ op' = [op EXCEPT ![p] = NoOp]
             /\ locals' = [locals EXCEPT ![p] = None]
             /\ last' = IF fault = "copy"
                        THEN [op |-> op[p], exc |-> raised, msg |-> "backup_failed",
                              old |-> None, product |-> None, result |-> None]
                        ELSE [op |-> op[p], exc |-> "none", msg |-> "success",
                              old |-> None, product |-> None, result |-> Some(copy)]
             /\ UNCHANGED <<clock, old_quantity>>

backup_database(p) == backup_database_begin(p) \/ backup_database_rest(p)

\* One caller at a time: calls that change the store and calls that read it,
\* through the store's functions, the routes and the menu, while the clock
\* advances.
ReadNext ==
    \/ create_product(1)
    \/ update_product_quantity(1)
    \/ add_quantity_to_product(1)
    \/ order_product(1)
    \/ delete_product(1)
    \/ list_products(1)
    \/ read_product_by_id(1)
    \/ read_product_by_name(1)
    \/ search_products(1)
    \/ read_all_transactions(1)
    \/ route_get_all_transactions(1)
    \/ read_transactions_by_product(1)
    \/ get_product_transactions(1)
    \/ get_database_stats(1)
    \/ view_inventory(1)
    \/ view_transaction_log(1)
    \/ backup_database(1)
    \/ Respond
    \/ Tick

ReadSpec == Init /\ [][ReadNext]_vars

\* Caller 1 changes the store while caller 2 is in a reading call of more
\* than one step, all within one second of the clock.
RaceNext ==
    \/ create_product(1)
    \/ update_product_quantity(1)
    \/ add_quantity_to_product(1)
    \/ order_product(1)
    \/ delete_product(1)
    \/ get_product_transactions(2)
    \/ get_database_stats(2)
    \/ backup_database(2)
    \/ Respond

RaceSpec == Init /\ [][RaceNext]_vars

(* ------------------------------- claims -------------------------------- *)

\* C1: in every reachable state, whatever calls succeeded or failed and
\* however they overlapped, every stored product has quantity >= 0.
C1_QuantityNonNegative == \A r \in db.products : r.quantity >= 0

\* An order that took the whole stock just ended and the product holds 0.
C1_Witness ==
    /\ last.op.kind = "order" /\ last.exc = "none"
    /\ last.old = Some(last.op.amount)
    /\ \E r \in db.products : r.id = last.op.product_id /\ r.quantity = 0

\* C2: overlapping mutations of one product leave the quantity and the log
\* that the same calls give when run one at a time: every write block that
\* commits leaves the store its call gives when run alone from the store
\* the block found.
C2_Serializable ==
    [][\A p \in Procs :
          (Wrote(p) /\ db' # db) => db' = SerialOutcome(db, op[p], clock)]_vars

\* C3: for every stored product, its entries applied in performed_at order
\* from the new_quantity of its CREATE entry give its current quantity.
C3_ReplayGivesQuantity ==
    \A r \in db.products :
        LET log == InOrder(Entries(db, r.id))
        IN  /\ log # <<>>
            /\ log[1].transaction_type = "CREATE"
            /\ Replay(log) = r.quantity

\* C4: a write block whose log INSERT or commit fails leaves the store as
\* the call found it, and no committed store holds a product write without
\* its log entry: the newest entry of every product carries its quantity.
C4_Atomic ==
    /\ [](\A r \in db.products :
            /\ Entries(db, r.id) # {}
            /\ Newest(Entries(db, r.id)).new_quantity = r.quantity)
    /\ [][(Ends /\ last'.exc = "OperationalError") => db' = db]_vars

\* The log INSERT of a call on a stored product just failed.
C4_Witness ==
    /\ last.exc = "OperationalError" /\ last.msg = "log_failed"
    /\ last.op.kind \in {"update", "add", "order"}
    /\ \E r \in db.products :
         r.id = last.op.product_id /\ Some(r.quantity) = last.old


\* The stock check of a call that began on a product holding q.
Insufficient(q, amount) == amount > q

\* C5: an order on a stored product for more than the quantity it reads
\* ends with the insufficient-stock error, the store unchanged; for a
\* positive amount up to that quantity (the whole of it included) it goes on
\* to its write, which never reports insufficient stock, can succeed while
\* the product is stored, and then leaves the quantity less the amount.
C5_Decrement ==
    /\ [][ /\ \A p \in Procs :
               (pc[p] = "idle" /\ pc'[p] = "write" /\ op'[p].kind = "order") =>
                   /\ op'[p].amount > 0
                   /\ SelectProduct(db, op'[p].product_id) # None
                   /\ ~Insufficient(Product(db, op'[p].product_id).quantity,
                                    op'[p].amount)
           /\ (/\ Ends /\ last'.op.kind = "order" /\ last'.op.amount > 0
               /\ \A p \in Procs : pc'[p] = pc[p]
               /\ SelectProduct(db, last'.op.product_id) # None) =>
                   /\ Insufficient(Product(db, last'.op.product_id).quantity,
                                   last'.op.amount)
                   /\ last'.exc = "ValueError" /\ last'.msg = "insufficient"
                   /\ db' = db
           /\ \A p \in Procs :
               (Wrote(p) /\ op[p].kind = "order") =>
                   /\ last'.msg # "insufficient"
                   /\ (last'.exc = "none" =>
                         /\ Product(db', op[p].product_id).quantity
                              = old_quantity[p][1] - op[p].amount
                         /\ Cardinality(db'.transactions)
                              = Cardinality(db.transactions) + 1)]_vars
    /\ [](\A p \in Procs :
            (/\ pc[p] = "write" /\ op[p].kind = "order" /\ last = NoLast
             /\ SelectProduct(db, op[p].product_id) # None
             /\ db.seq_transactions < MaxTransactions) =>
                ENABLED (order_product_write(p) /\ last'.exc = "none"))

\* An order for more than the stock just failed; the quantity is as it was.
C5_Witness ==
    /\ last.op.kind = "order" /\ last.msg = "insufficient"
    /\ \E r \in db.products :
         /\ r.id = last.op.product_id
         /\ Some(r.quantity) = last.old
         /\ r.quantity > 0 /\ last.op.amount > r.quantity
    /\ Entries(db, last.op.product_id) # {}

\* C6: a call that ends with a validation, duplicate or not-found error
\* leaves the products and the transactions as they were.
C6_ErrorsWriteNothing ==
    [][(/\ Ends /\ last'.exc = "ValueError"
        /\ last'.msg \in {"not_alnum", "negative", "not_positive", "exists",
                          "not_found"}) => db' = db]_vars

\* A call on a missing product just failed while the store holds rows.
C6_Witness ==
    /\ last.exc = "ValueError" /\ last.msg = "not_found"
    /\ db.products # {} /\ db.transactions # {}

\* C7: a successful create of name with quantity q adds one product with
\* that name and quantity, and one entry for it: CREATE, old_quantity null,
\* new_quantity q, change_amount q; nothing else changes, in one step.
C7_Create ==
    [][(Ends /\ last'.op.kind = "create" /\ last'.exc = "none") =>
          LET newP == db'.products \ db.products
              newT == db'.transactions \ db.transactions
          IN  /\ db.products \subseteq db'.products
              /\ db.transactions \subseteq db'.transactions
              /\ Cardinality(newP) = 1 /\ Cardinality(newT) = 1
              /\ \A r \in newP :
                   /\ r.product_name = last'.op.product_name
                   /\ r.quantity = last'.op.amount
                   /\ last'.product = Some(r)
                   /\ \A t \in newT :
                        /\ t.product_id = r.id
                        /\ t.transaction_type = "CREATE"
                        /\ t.old_quantity = None
                        /\ t.new_quantity = last'.op.amount
                        /\ t.change_amount = last'.op.amount]_vars

\* A create with a positive quantity just succeeded.
C7_Witness ==
    /\ last.op.kind = "create" /\ last.exc = "none" /\ last.op.amount > 0
    /\ last.product # None /\ last.product[1] \in db.products

\* C8: no two stored products have the same name, also when creates
\* overlap, and a create with the name of a stored product ends with the
\* duplicate error and adds nothing.  Names differing in case differ.
C8_UniqueNames ==
    /\ [](\A r1, r2 \in db.products :
            r1.product_name = r2.product_name => r1 = r2)
    /\ [][(/\ Ends /\ last'.op.kind = "create"
            /\ isalnum(last'.op.product_name) /\ last'.op.amount >= 0
            /\ \E r \in db.products : r.product_name = last'.op.product_name) =>
               /\ last'.exc = "ValueError" /\ last'.msg = "exists"
               /\ db' = db]_vars

\* A create was just refused as a duplicate while the store holds two
\* products whose names differ in case only.
C8_Witness ==
    /\ last.op.kind = "create" /\ last.msg = "exists"
    /\ \E r1, r2 \in db.products :
         r1.product_name = <<"a">> /\ r2.product_name = <<"A">>

\* C9: a successful set, add or order that read quantity old leaves the
\* quantity its rule gives (the amount, old + amount, old - amount), logs
\* one entry with that old_quantity and new_quantity, and returns the
\* product with the new quantity.
C9_MutationRules ==
    [][\A p \in Procs :
          (Wrote(p) /\ last'.exc = "none" /\ op[p].kind \in {"update", "add", "order"}) =>
              LET id == op[p].product_id
                  old == old_quantity[p][1]
                  new == CASE op[p].kind = "update" -> op[p].amount
                           [] op[p].kind = "add" -> old + op[p].amount
                           [] op[p].kind = "order" -> old - op[p].amount
                  newT == db'.transactions \ db.transactions
              IN  /\ Product(db', id).quantity = new
                  /\ db.transactions \subseteq db'.transactions
                  /\ Cardinality(newT) = 1
                  /\ \A t \in newT : /\ t.product_id = id
                                      /\ t.old_quantity = Some(old)
                                      /\ t.new_quantity = new
                  /\ last'.product = Some(Product(db', id))]_vars

\* An add to a product that held stock just succeeded.
C9_Witness ==
    /\ last.op.kind = "add" /\ last.exc = "none"
    /\ last.old # None /\ last.old[1] > 0
    /\ last.product[1].quantity = last.old[1] + last.op.amount
    /\ last.product[1] \in db.products

\* C10: a successful set to q of a product whose newest entry is a set to q,
\* read after that set, leaves the quantity q and appends one more entry,
\* with old_quantity = new_quantity = q and change_amount 0.
C10_SetTwice ==
    [][\A p \in Procs :
          (/\ Wrote(p) /\ op[p].kind = "update" /\ last'.exc = "none"
           /\ old_quantity[p] = Some(op[p].amount)
           /\ SelectProduct(db, op[p].product_id) # None
           /\ Product(db, op[p].product_id).quantity = op[p].amount
           /\ Entries(db, op[p].product_id) # {}
           /\ Newest(Entries(db, op[p].product_id)).transaction_type = "UPDATE"
           /\ Newest(Entries(db, op[p].product_id)).new_quantity = op[p].amount) =>
              LET id == op[p].product_id
                  q == op[p].amount
                  t == Newest(Entries(db', id))
              IN  /\ Product(db', id).quantity = q
                  /\ Entries(db, id) \subseteq Entries(db', id)
                  /\ Cardinality(Entries(db', id)) = Cardinality(Entries(db, id)) + 1
                  /\ t \notin Entries(db, id)
                  /\ t.old_quantity = Some(q) /\ t.new_quantity = q
                  /\ t.change_amount = 0]_vars

\* The second of two sets to the same quantity just succeeded: the log
\* holds both entries.
C10_Witness ==
    /\ last.op.kind = "update" /\ last.exc = "none"
    /\ last.old = Some(last.op.amount)
    /\ \E t1, t2 \in Entries(db, last.op.product_id) :
         /\ t1.id < t2.id
         /\ t1.transaction_type = "UPDATE" /\ t2.transaction_type = "UPDATE"
         /\ t1.new_quantity = last.op.amount /\ t2.new_quantity = last.op.amount
         /\ t2.old_quantity = Some(last.op.amount) /\ t2.change_amount = 0

\* C11: a successful delete of product id removes, in one step, the product
\* and every entry of it and nothing else; afterwards get_product_by_id
\* gives None and neither listing holds an entry of it.  A delete that
\* fails leaves the store as it was.
C11_DeleteCascades ==
    [][\A p \in Procs :
          (Wrote(p) /\ op[p].kind = "delete") =>
              LET id == op[p].product_id
              IN  IF last'.exc = "none"
                  THEN /\ db'.products = {r \in db.products : r.id # id}
                       /\ db'.transactions = db.transactions \ Entries(db, id)
                       /\ Entries(db', id) = {}
                       /\ get_product_by_id(db', id) = None
                       /\ get_transactions_by_product(db', id) = {}
                       /\ \A t \in Joined(db') : t.product_id # id
                  ELSE db' = db]_vars

\* A product with more than one entry was just deleted; another is stored.
C11_Witness ==
    /\ last.op.kind = "delete" /\ last.exc = "none"
    /\ get_product_by_id(db, last.op.product_id) = None
    /\ db.seq_transactions >= 3
    /\ Cardinality(db.transactions) = 1
    /\ db.products # {}

\* C12: in every state every entry's product_id is the id of a stored
\* product and every stored product has an entry, also when a delete
\* overlaps a mutation of the product or a call is aborted.
C12_NoOrphans ==
    /\ \A t \in db.transactions : get_product_by_id(db, t.product_id) # None
    /\ \A r \in db.products : Entries(db, r.id) # {}

\* A set of a product's quantity was aborted: the product it had read was
\* deleted by an overlapping call before it wrote.
C12_Witness ==
    /\ last.op.kind = "update" /\ last.exc = "IntegrityError"
    /\ last.old # None
    /\ get_product_by_id(db, last.op.product_id) = None
    /\ db.products # {}

\* A call of this step succeeded with a quantity mutation of product id.
Mutated(id) ==
    /\ Ends /\ last'.exc = "none"
    /\ last'.op.kind \in {"update", "add", "order"}
    /\ last'.op.product_id = id

\* A call of this step succeeded with the creation of product id.
Created(id) ==
    /\ Ends /\ last'.exc = "none" /\ last'.op.kind = "create"
    /\ last'.product # None /\ last'.product[1].id = id

\* C13: the log of a product is append-only.  A step keeps every entry of
\* a product that stays stored and adds one entry to it exactly when it is a
\* successful set, add or order of that product; a product appears with one
\* entry, its CREATE entry, exactly by a successful create; so a stored
\* product has one CREATE entry, the oldest, and one entry more for each
\* successful mutation.
C13_AppendOnly ==
    /\ [][\A id \in {r.id : r \in db.products \cup db'.products} :
            LET before == Entries(db, id)
                after == Entries(db', id)
            IN  /\ (get_product_by_id(db, id) # None /\ get_product_by_id(db', id) # None) =>
                       /\ before \subseteq after
                       /\ Cardinality(after \ before) = (IF Mutated(id) THEN 1 ELSE 0)
                /\ (get_product_by_id(db, id) = None /\ get_product_by_id(db', id) # None) =>
                       /\ Created(id)
                       /\ Cardinality(after) = 1
                /\ (Created(id) \/ Mutated(id)) => get_product_by_id(db', id) # None]_vars
    /\ [](\A r \in db.products :
            LET creates == {t \in Entries(db, r.id) : t.transaction_type = "CREATE"}
            IN  /\ Cardinality(creates) = 1
                /\ \A c \in creates : \A t \in Entries(db, r.id) : c.id <= t.id)

\* A product holds its CREATE entry and two entries of the same kind of
\* mutation, the second just logged.
C13_Witness ==
    /\ last.exc = "none" /\ last.op.kind = "update"
    /\ \E t1, t2 \in Entries(db, last.op.product_id) :
         /\ t1.id < t2.id
         /\ t1.transaction_type = "UPDATE" /\ t2.transaction_type = "UPDATE"
    /\ Cardinality(Entries(db, last.op.product_id)) = 3

\* C14: an add or an order with an amount <= 0 fails and writes nothing,
\* through the store's functions and through the menu, so that no
\* ADD_QUANTITY or ORDER entry has change_amount 0.
C14_DeltaPositive ==
    /\ [](\A t \in db.transactions :
            t.transaction_type \in {"ADD_QUANTITY", "ORDER"} => t.change_amount # 0)
    /\ [][(/\ Ends
           /\ last'.op.kind \in {"add", "order", "cli_add_quantity", "cli_order"}
           /\ last'.op.amount <= 0) =>
              /\ last'.msg # "success"
              /\ db' = db]_vars

\* C15: a set, add, order or delete called, with a valid amount, for an id
\* no product is stored under ends with the not-found error, whose kind is
\* not the kind of the validation and insufficient-stock errors
\* (ValueError) and which the route answers with 404.
C15_NotFoundKind ==
    [][(/\ Ends
        /\ \A p \in Procs : pc'[p] = pc[p]
        /\ \/ last'.op.kind = "update" /\ last'.op.amount >= 0
           \/ last'.op.kind \in {"add", "order"} /\ last'.op.amount > 0
           \/ last'.op.kind = "delete"
        /\ get_product_by_id(db, last'.op.product_id) = None) =>
           /\ last'.msg = "not_found"
           /\ last'.exc \notin {"none", "ValueError"}
           /\ http_status(last'.op.kind, last'.exc) = 404
           /\ db' = db]_vars

\* A name create is to refuse: empty, not alphanumeric or too long.
BadName(name) == Len(name) < 1 \/ ~isalnum(name) \/ Len(name) > max_length

\* C16: a create with a name that is empty, holds a character that is not
\* alphanumeric or is longer than max_length is refused as invalid and
\* stores nothing, whichever way it came in, so that no stored product has
\* such a name.
C16_NameValidated ==
    /\ [](\A r \in db.products : ~BadName(r.product_name))
    /\ [][(/\ Ends /\ last'.op.kind \in {"create", "cli_add"}
           /\ BadName(last'.op.product_name)
           /\ last'.exc # "OperationalError") =>
              /\ last'.msg \in {"not_alnum", "unprocessable", "invalid_name"}
              /\ db' = db]_vars

\* The entries a step adds to the log.
NewEntries == db'.transactions \ db.transactions

\* The operation of the ledger a call performs.
OperationOf(kind) ==
    CASE kind \in {"create", "cli_add"} -> "CreateProduct"
      [] kind \in {"update", "cli_update"} -> "SetQuantity"
      [] kind \in {"add", "cli_add_quantity"} -> "IncrementQuantity"
      [] kind \in {"order", "cli_order"} -> "DecrementQuantity"
      [] OTHER -> "DeleteProduct"

C18_OldQuantity ==
    /\ [](\A t \in db.transactions :
            (t.old_quantity = None) <=>
                (\A u \in Entries(db, t.product_id) : t.id <= u.id))
    /\ [][\A t \in NewEntries :
            t.old_quantity # None =>
               /\ get_product_by_id(db, t.product_id) # None
               /\ t.old_quantity = Some(Product(db, t.product_id).quantity)]_vars

\* The pairs both copies of log_transaction are compared on.
QuantityPairs ==
    LET values == CreateQuantities \cup SetQuantities \cup Deltas
    IN  ({None} \cup {Some(q) : q \in values}) \X values

\* C19: every stored entry has change_amount = new_quantity - old_quantity
\* with no old_quantity counted as 0, whichever copy of log_transaction
\* logged it, and the two copies give the same change_amount for its pair
\* and for every pair of the quantities in use.
C19_ChangeAmount ==
    /\ \A t \in db.transactions :
         /\ t.change_amount =
               t.new_quantity - (IF t.old_quantity = None THEN 0 ELSE t.old_quantity[1])
         /\ change_amount(t.old_quantity, t.new_quantity)
               = cli_change_amount(t.old_quantity, t.new_quantity)
    /\ \A pair \in QuantityPairs :
         change_amount(pair[1], pair[2]) = cli_change_amount(pair[1], pair[2])

\* The log holds a CREATE entry without old_quantity for a positive
\* quantity and an entry the menu just logged for a positive add.
C19_Witness ==
    /\ last.op.kind = "cli_add_quantity" /\ last.msg = "success" /\ last.op.amount > 0
    /\ \E t1, t2 \in Entries(db, last.op.product_id) :
         /\ t1.old_quantity = None /\ t1.new_quantity > 0
         /\ t2.transaction_type = "ADD_QUANTITY" /\ t2.change_amount = last.op.amount

\* The calls that set, add to or order from a product's quantity.
MutationKinds ==
    {"update", "add", "order", "cli_update", "cli_add_quantity", "cli_order"}

\* C20: a step leaves the id, product_name and created_at of every product
\* that stays stored; a row changes only by a successful set, add or order
\* of that product, which changes nothing but its quantity and updated_at
\* and neither adds nor removes a product; no two rows share an id.
C20_Frame ==
    /\ [][/\ \A r \in db.products : \A r2 \in db'.products :
               r2.id = r.id =>
                  /\ r2.product_name = r.product_name
                  /\ r2.created_at = r.created_at
                  /\ r2 # r => /\ Ends /\ last'.msg = "success"
                               /\ last'.op.kind \in MutationKinds
                               /\ last'.op.product_id = r.id
          /\ (Ends /\ last'.op.kind \in MutationKinds) =>
                {r.id : r \in db'.products} = {r.id : r \in db.products}]_vars
    /\ [](\A r1, r2 \in db.products : r1.id = r2.id => r1 = r2)

\* A product created a second ago just had its quantity changed, beside
\* another product.
C20_Witness ==
    /\ last.op.kind \in MutationKinds /\ last.msg = "success"
    /\ \E r \in db.products :
         /\ r.id = last.op.product_id
         /\ r.created_at < r.updated_at
         /\ Some(r.quantity) # last.old
    /\ Cardinality(db.products) = 2

\* The quantities the stock status is compared on.
StatusQuantities == 0..8

\* A call that lists the products ended in this step with its rows.
Listed == Ends /\ last'.op.kind \in {"get_all_products", "cli_view_inventory"}
               /\ last'.exc = "none"

\* C21: a listing of the products returns every stored product, once, with
\* its name and quantity and a stock status that depends on the quantity
\* alone: Out of Stock exactly at 0, Low Stock exactly from 1 to 4, In Stock
\* exactly from 5 on, one and only one of the three for every quantity >= 0.
C21_StockStatus ==
    /\ [][Listed =>
            LET rows == last'.result[1]
            IN  /\ Len(rows) = Cardinality(db.products)
                /\ \A r \in db.products : \E i \in 1..Len(rows) :
                      /\ rows[i].product_name = r.product_name
                      /\ rows[i].quantity = r.quantity
                      /\ rows[i].stock_status = "Out of Stock" <=> r.quantity = 0
                      /\ rows[i].stock_status = "Low Stock" <=>
                            (0 < r.quantity /\ r.quantity < 5)
                      /\ rows[i].stock_status = "In Stock" <=> r.quantity >= 5]_vars
    /\ [](\A q \in StatusQuantities :
            /\ stock_status(q) = "Out of Stock" <=> q = 0
            /\ stock_status(q) = "Low Stock" <=> (0 < q /\ q < 5)
            /\ stock_status(q) = "In Stock" <=> q >= 5
            /\ Cardinality({st \in {"Out of Stock", "Low Stock", "In Stock"} :
                               stock_status(q) = st}) = 1)

\* A listing just returned a product that holds 5 as In Stock.
C21_Witness ==
    /\ last.op.kind \in {"get_all_products", "cli_view_inventory"}
    /\ last.result # None
    /\ \E i \in 1..Len(last.result[1]) :
         /\ last.result[1][i].quantity = 5
         /\ last.result[1][i].stock_status = "In Stock"
         /\ \E r \in db.products : r.quantity = 5

\* Product r satisfies every filter query q supplies.
Matches(r, q) ==
    /\ q.name # None => Contains(lower(r.product_name), lower(q.name[1]))
    /\ q.min_quantity # None => r.quantity >= q.min_quantity[1]
    /\ q.max_quantity # None => r.quantity <= q.max_quantity[1]
    /\ q.instock # None => (q.instock[1] <=> r.quantity > 0)

\* Query q supplies both bounds, the least above the greatest.
BoundsCrossed(q) ==
    /\ q.min_quantity # None /\ q.max_quantity # None
    /\ q.min_quantity[1] > q.max_quantity[1]

\* C22: a search succeeds for every subset of the filters supplied, unless
\* both bounds are supplied and crossed, and returns exactly the stored
\* products that satisfy every filter supplied.
C22_SearchFilters ==
    [][(/\ Ends /\ last'.op.kind = "search"
        /\ SearchQuery(last'.op.args) /\ ~BoundsCrossed(last'.op.args)) =>
           /\ last'.exc = "none"
           /\ last'.result # None
           /\ LET rows == last'.result[1]
              IN  /\ {rows[i].id : i \in 1..Len(rows)}
                       = {r.id : r \in {r \in db.products : Matches(r, last'.op.args)}}
                  /\ \A i, j \in 1..Len(rows) : rows[i].id = rows[j].id => i = j]_vars

\* C23: a search with both bounds supplied and crossed ends with an error
\* of the client's input, answered with a status from 400 to 499, and
\* returns no products.
C23_SearchBounds ==
    [][(Ends /\ last'.op.kind = "search" /\ BoundsCrossed(last'.op.args)) =>
           /\ last'.exc # "none"
           /\ http_status("search", last'.exc) >= 400
           /\ http_status("search", last'.exc) < 500
           /\ last'.result = None
           /\ db' = db]_vars

\* The least of two numbers.
Min(a, b) == IF a < b THEN a ELSE b

\* A listing of the whole log by a caller's limit ended in this step.
ListedAll ==
    /\ Ends /\ last'.op.kind \in {"transactions", "get_all_transactions"}
    /\ last'.exc = "none"

\* The limit a listing of the whole log was called with.
LimitOf(o) == IF o.args = None THEN default_limit ELSE o.args[1]

\* C24: a listing of the whole log called with limit returns min(limit, N)
\* entries of the N stored, and they are the most recently logged ones:
\* no stored entry left out has a later performed_at than an entry returned.
C24_Limit ==
    [][ListedAll =>
          LET rows == last'.result[1]
              returned == {rows[i].id : i \in 1..Len(rows)}
          IN  /\ Len(rows) = Min(LimitOf(last'.op), Cardinality(db.transactions))
              /\ Cardinality(returned) = Len(rows)
              /\ returned \subseteq {t.id : t \in db.transactions}
              /\ \A t \in db.transactions :
                    t.id \notin returned =>
                       \A i \in 1..Len(rows) : t.performed_at <= rows[i].performed_at]_vars

\* A listing of the log, whole or of one product, ended in this step.
ListedLog ==
    /\ Ends /\ last'.exc = "none"
    /\ last'.op.kind \in {"transactions", "get_all_transactions",
                          "get_transactions_by_product", "product_transactions",
                          "cli_view_transaction_log"}

\* C25: a listing of the log returns its entries newest first: of two
\* entries returned, the one logged later (with the greater id) comes first,
\* whatever the time between the two writes.
C25_NewestFirst ==
    [][ListedLog =>
          LET rows == last'.result[1]
          IN  \A i, j \in 1..Len(rows) : i < j => rows[i].id > rows[j].id]_vars

\* C26: the history of product id asked for through the route ends, when
\* the product is stored as the history is read, with exactly the entries
\* of that product, each once, and when it is not, a product deleted since
\* the route's check included, with the not-found error, status 404.
C26_ProductHistory ==
    [][(Ends /\ last'.op.kind = "product_transactions") =>
          LET id == last'.op.product_id
          IN  IF get_product_by_id(db, id) # None
              THEN /\ last'.exc = "none"
                   /\ LET rows == last'.result[1]
                      IN  /\ {rows[i].id : i \in 1..Len(rows)}
                               = {t.id : t \in Entries(db, id)}
                          /\ Len(rows) = Cardinality(Entries(db, id))
              ELSE /\ last'.exc # "none"
                   /\ http_status("product_transactions", last'.exc) = 404
                   /\ last'.result = None]_vars

\* The four numbers are those of some store: a store has an entry for each
\* of its products, no more products out of stock than products, and a
\* total stock of 0 exactly when every product is out of stock.
OneStore(stats) ==
    /\ stats.transaction_count >= stats.product_count
    /\ stats.out_of_stock_count <= stats.product_count
    /\ stats.total_stock >= 0
    /\ stats.total_stock = 0 <=> stats.out_of_stock_count = stats.product_count
    /\ stats.product_count = 0 => stats.transaction_count = 0

\* The statistics of store d.
StatsOf(d) ==
    [product_count |-> Cardinality(d.products),
     transaction_count |-> Cardinality(d.transactions),
     total_stock |-> Sum(d.products),
     out_of_stock_count |-> Cardinality({r \in d.products : r.quantity = 0})]

\* C27: the four numbers get_database_stats returns are taken from one
\* store: the statistics of every store satisfy OneStore, and so do the
\* numbers returned.
C27_Stats ==
    /\ [](OneStore(StatsOf(db)))
    /\ [][(Ends /\ last'.op.kind = "stats") =>
            /\ last'.exc = "none"
            /\ OneStore(last'.result[1])]_vars

\* The calls that read the store or copy it.
ReadKinds ==
    {"get_all_products", "get_product_by_id", "get_product_by_name", "search",
     "transactions", "get_all_transactions", "get_transactions_by_product",
     "product_transactions", "stats", "cli_view_inventory",
     "cli_view_transaction_log", "backup", "cli_backup"}

\* C28: no step of a reading call or of a backup, whether the call goes on,
\* succeeds or fails, changes the products or the transactions.
C28_ReadsWriteNothing ==
    [][(\/ Ends /\ last'.op.kind \in ReadKinds
        \/ \E p \in Procs : op[p].kind \in ReadKinds \/ op'[p].kind \in ReadKinds) =>
           /\ db'.products = db.products
           /\ db'.transactions = db.transactions]_vars

\* A backup of a store that holds a product and its entries just ended
\* with the copy made.
C28_Witness ==
    /\ last.op.kind \in {"backup", "cli_backup"} /\ last.msg = "success"
    /\ last.result # None
    /\ last.result[1].products = db.products
    /\ last.result[1].transactions = db.transactions
    /\ db.products # {} /\ Cardinality(db.transactions) > 1

\* Every product of store d has entries, the newest with its quantity, and
\* every entry of d is the entry of a product of d.
Whole(d) ==
    /\ \A r \in d.products :
         /\ Entries(d, r.id) # {}
         /\ Newest(Entries(d, r.id)).new_quantity = r.quantity
    /\ \A t \in d.transactions : \E r \in d.products : r.id = t.product_id

\* C29: the copy a backup makes is the store as committed at one instant:
\* every committed store is whole, and so is the copy, which holds no
\* quantity without the entry that logs it and no entry without its
\* product and quantity, also when a call commits while the backup runs.
C29_Snapshot ==
    /\ [](Whole(db))
    /\ [][(Ends /\ last'.op.kind \in {"backup", "cli_backup"} /\ last'.msg = "success") =>
            Whole(last'.result[1])]_vars

\* The entries S in the order of their ids.
RECURSIVE ByTransactionId(_)
ByTransactionId(S) ==
    IF S = {} THEN <<>>
    ELSE LET first == CHOOSE t \in S : \A u \in S : t.id <= u.id
         IN  <<first>> \o ByTransactionId(S \ {first})

\* The sum of change_amount over a log.
RECURSIVE SumOfChanges(_)
SumOfChanges(log) ==
    IF log = <<>> THEN 0 ELSE log[1].change_amount + SumOfChanges(Tail(log))

\* C30: in every state the entries of every stored product, in the order
\* of their ids, form a chain: the first is the creation entry, without
\* old_quantity; each later one has the new_quantity of the one before as
\* its old_quantity; the last one has the product's quantity as its
\* new_quantity; and the change_amounts add up to that quantity.
C30_LedgerChain ==
    \A r \in db.products :
        LET log == ByTransactionId(Entries(db, r.id))
        IN  /\ log # <<>>
            /\ log[1].transaction_type = "CREATE"
            /\ log[1].old_quantity = None
            /\ \A i \in 2..Len(log) :
                  log[i].old_quantity = Some(log[i - 1].new_quantity)
            /\ log[Len(log)].new_quantity = r.quantity
            /\ SumOfChanges(log) = r.quantity

\* The amounts taken by the ORDER entries of S.
RECURSIVE Ordered(_)
Ordered(S) ==
    IF S = {} THEN 0
    ELSE LET t == CHOOSE u \in S : TRUE
         IN  (IF t.transaction_type = "ORDER"
              THEN t.old_quantity[1] - t.new_quantity ELSE 0)
             + Ordered(S \ {t})

\* The amounts brought by the CREATE and ADD_QUANTITY entries of S.
RECURSIVE Supplied(_)
Supplied(S) ==
    IF S = {} THEN 0
    ELSE LET t == CHOOSE u \in S : TRUE
         IN  (CASE t.transaction_type = "CREATE" -> t.new_quantity
                [] t.transaction_type = "ADD_QUANTITY" ->
                       t.new_quantity - t.old_quantity[1]
                [] OTHER -> 0)
             + Supplied(S \ {t})

\* C31: for a stored product whose quantity was never set by
\* update_product_quantity, the amounts of all successful orders together
\* never exceed the quantity it was created with plus the amounts of all
\* successful additions, also when the orders come from two callers at
\* once: two orders that together ask for more than is in stock do not
\* both succeed.
C31_NoOverselling ==
    \A r \in db.products :
        LET S == Entries(db, r.id)
        IN  (\A t \in S : t.transaction_type # "UPDATE") =>
                Ordered(S) <= Supplied(S)

\* The id of the stored product that the call ending in this step targets:
\* none for a create, whose product is not stored before the step.
Target ==
    IF last'.op.kind \in {"create", "route_create", "ledger_create", "cli_add"}
    THEN 0 ELSE last'.op.product_id

\* C32: a create, update, add, order or delete leaves every product other
\* than its target as it was, row and log entries alike.
C32_OtherProductsUntouched ==
    [][\A r \in db.products :
          r.id # Target =>
              /\ r \in db'.products
              /\ Entries(db', r.id) = Entries(db, r.id)]_vars

\* A call on one product has succeeded while another product is stored.
C32_Witness ==
    /\ last.msg = "success"
    /\ last.op.kind \in {"update", "add", "order", "delete"}
    /\ \E r \in db.products : r.id # last.op.product_id /\ Entries(db, r.id) # {}

\* C33: product ids grow with creation and are never used twice.  The
\* sequence of the products table is at least every stored id and never
\* goes down, and a product that enters the store has an id above the
\* sequence, so above every id a stored product ever had, whatever was
\* created, refused or deleted before, the product with the highest id
\* included.
C33_IdsNeverReused ==
    /\ [](\A r \in db.products : r.id <= db.seq_products)
    /\ [][db'.seq_products >= db.seq_products]_vars
    /\ [][\A r \in db'.products :
             (\A s \in db.products : s.id # r.id) => r.id > db.seq_products]_vars

\* A product has been created with id 2 after product 1, which had the
\* highest id, was deleted.
C33_Witness ==
    /\ last.op.kind = "create"
    /\ last.msg = "success"
    /\ last.product # None
    /\ last.product[1].id = 2
    /\ \A r \in db.products : r.id # 1

(* ---------------- get_db_connection, statement by statement ------------- *)
(* order_product of the store and of the menu with their connection spelt   *)
(* out: pc follows the generator of get_db_connection through connect,     *)
(* yield, commit, the except clause and the finally clause; locals[p] is   *)
(* the connection.  working is the store as the connection sees it, with   *)
(* its uncommitted writes; calls are the commit, rollback and close made   *)
(* on it; exc is the exception on its way out.                             *)

Conn(state, working, calls, exc, msg) ==
    [conn |-> state, working |-> working, calls |-> calls, exc |-> exc, msg |-> msg]

\* The with-block of database.order_product on store d: what it raises and
\* the store its connection is left with.
order_product_block(d, o, fault, now) ==
    LET product == SelectProduct(d, o.product_id)
        old == product[1].quantity
        new == order_new_quantity(old, o.amount)
        r1 == UpdateQuantity(d, o.product_id, new, now)
        r2 == log_transaction(r1.db, o.product_id, "ORDER", Some(old), new, now)
    IN  IF product = None
        THEN [exc |-> "ValueError", msg |-> "not_found", working |-> d]
        ELSE IF ~InStock(old, o.amount)
        THEN [exc |-> "ValueError", msg |-> "insufficient", working |-> d]
        ELSE IF r1.err # "none"
        THEN [exc |-> r1.err, msg |-> "constraint", working |-> r1.db]
        ELSE IF fault = "log"
        THEN [exc |-> "OperationalError", msg |-> "log_failed", working |-> r1.db]
        ELSE IF r2.err # "none"
        THEN [exc |-> r2.err, msg |-> "constraint", working |-> r1.db]
        ELSE [exc |-> "none", msg |-> "success", working |-> r2.db]

\* The with-block of the menu's order_product: it returns early, raising
\* nothing, when the product is missing, the amount not positive or the
\* stock too small.
cli_order_product_block(d, o, fault, now) ==
    LET product == SelectByName(d, o.product_name)
        old == product[1].quantity
        new == old - o.amount
        r1 == UpdateQuantity(d, product[1].id, new, now)
        r2 == cli_log_transaction(r1.db, product[1].id, "ORDER", Some(old), new, now)
    IN  IF product = None
        THEN [exc |-> "none", msg |-> "not_found", working |-> d]
        ELSE IF o.amount <= 0
        THEN [exc |-> "none", msg |-> "not_positive", working |-> d]
        ELSE IF o.amount > old
        THEN [exc |-> "none", msg |-> "insufficient", working |-> d]
        ELSE IF r1.err # "none"
        THEN [exc |-> r1.err, msg |-> "constraint", working |-> r1.db]
        ELSE IF fault = "log"
        THEN [exc |-> "OperationalError", msg |-> "log_failed", working |-> r1.db]
        ELSE IF r2.err # "none"
        THEN [exc |-> r2.err, msg |-> "constraint", working |-> r1.db]
        ELSE [exc |-> "none", msg |-> "success", working |-> r2.db]

\* conn = sqlite3.connect(DB_PATH), the PRAGMA, yield conn.  A call that
\* fails its check before the with statement, or whose connect fails,
\* has no connection to commit, roll back or close.
get_db_connection_connect(p, o) ==
    \E fault \in {"none", "connect"} :
        IF fault = "connect"
        THEN Reject(p, o, "OperationalError", "connect_failed")
        ELSE /\ pc' = [pc EXCEPT ![p] = "yield"]
             /\ op' = [op EXCEPT ![p] = o]
             /\ locals' = [locals EXCEPT ![p] = Conn("open", db, <<>>, "none", "none")]
             /\ last' = NoLast
             /\ UNCHANGED <<db, clock, old_quantity>>

\* The with-block runs on the connection; an exception of the block is
\* thrown into the generator at its yield.
get_db_connection_yield(p) ==
    /\ last = NoLast
    /\ pc[p] = "yield"
    /\ \E fault \in {"none", "log"} :
         LET block == IF op[p].kind = "order"
                      THEN order_product_block(db, op[p], fault, clock)
                      ELSE cli_order_product_block(db, op[p], fault, clock)
         IN  /\ Room(block.working)
             /\ locals' = [locals EXCEPT ![p] =
                              Conn("open", block.working, <<>>, block.exc, block.msg)]
             /\ pc' = [pc EXCEPT ![p] = IF block.exc = "none" THEN "commit"
                                                              ELSE "except"]
             /\ UNCHANGED <<db, clock, op, old_quantity, last>>

\* conn.commit(): the writes of the connection reach the store, or the
\* commit raises.
get_db_connection_commit(p) ==
    /\ last = NoLast
    /\ pc[p] = "commit"
    /\ \E fault \in {"none", "commit"} :
         LET c == locals[p]
         IN  IF fault = "commit"
             THEN /\ locals' = [locals EXCEPT ![p] =
                                   Conn("open", c.working, Append(c.calls, "commit_failed"),
                                        "OperationalError", "commit_failed")]
                  /\ pc' = [pc EXCEPT ![p] = "except"]
                  /\ UNCHANGED <<db, clock, op, old_quantity, last>>
             ELSE /\ db' = c.working
                  /\ locals' = [locals EXCEPT ![p] =
                                   Conn("open", c.working, Append(c.calls, "commit"),
                                        c.exc, c.msg)]
                  /\ pc' = [pc EXCEPT ![p] = "finally"]
                  /\ UNCHANGED <<clock, op, old_quantity, last>>

\* The except clause that re-raises without conn.rollback().
get_db_connection_except_only_raises(p) ==
    /\ last = NoLast
    /\ pc[p] = "except"
    /\ pc' = [pc EXCEPT ![p] = "finally"]
    /\ UNCHANGED <<db, clock, op, old_quantity, locals, last>>

\* except Exception as e: conn.rollback(); raise e
get_db_connection_except(p) ==
    /\ last = NoLast
    /\ pc[p] = "except"
    /\ LET c == locals[p]
       IN  locals' = [locals EXCEPT ![p] =
                         Conn("open", db, Append(c.calls, "rollback"), c.exc, c.msg)]
    /\ pc' = [pc EXCEPT ![p] = "finally"]
    /\ UNCHANGED <<db, clock, op, old_quantity, last>>

\* finally: conn.close()
get_db_connection_finally(p) ==
    /\ last = NoLast
    /\ pc[p] = "finally"
    /\ LET c == locals[p]
       IN  locals' = [locals EXCEPT ![p] =
                         Conn("closed", c.working, Append(c.calls, "close"), c.exc, c.msg)]
    /\ pc' = [pc EXCEPT ![p] = "return"]
    /\ UNCHANGED <<db, clock, op, old_quantity, last>>

\* The with statement is left and the function returns, or raises what
\* the generator raised; the menu prints it.
get_db_connection_return(p) ==
    /\ last = NoLast
    /\ pc[p] = "return"
    /\ last' = [op |-> op[p], exc |-> locals[p].exc, msg |-> locals[p].msg,
                old |-> None, product |-> None, result |-> None]
    /\ pc' = [pc EXCEPT ![p] = "idle"]
    /\ op' = [op EXCEPT ![p] = NoOp]
    /\ locals' = [locals EXCEPT ![p] = None]
    /\ UNCHANGED <<db, clock, old_quantity>>

\* database.order_product and the menu's order_product begin: the checks
\* made before the with statement, then the connection.
scoped_order_product_begin(p) ==
    /\ last = NoLast
    /\ pc[p] = "idle"
    /\ \/ \E a \in AmountInputs(Deltas, {q \in Deltas : ~(q <= 0)}) :
            LET o == Call("order", <<>>, a[1], a[2])
            IN  IF o.amount <= 0 THEN Reject(p, o, "ValueError", "not_positive")
                ELSE get_db_connection_connect(p, o)
       \/ \E c \in CliInputs(CliNameInputs \ {LongName}, Deltas) :
            LET o == Call("cli_order", c[1], 0, c[2])
            IN  IF o.product_name = <<>> THEN Reject(p, o, "none", "empty_name")
                ELSE get_db_connection_connect(p, o)

scoped_order_product(p) ==
    \/ scoped_order_product_begin(p)
    \/ get_db_connection_yield(p)
    \/ get_db_connection_commit(p)
    \/ get_db_connection_except(p)
    \/ get_db_connection_finally(p)
    \/ get_db_connection_return(p)

\* One caller: products are created and added to, and ordered from with
\* every statement of the connection a step of its own.
ConnNext ==
    \/ create_product(1)
    \/ add_quantity_to_product(1)
    \/ scoped_order_product(1)
    \/ Respond

ConnSpec == Init /\ [][ConnNext]_vars

\* How often call x was made on a connection.
Made(calls, x) == Cardinality({i \in 1..Len(calls) : calls[i] = x})

\* C34: however an operation leaves its with-block (by its end, by an
\* early return, by a ValueError of its own, by a failure of the store, by
\* a commit that fails), its connection has by then been committed or
\* rolled back, exactly one of the two having taken effect, and closed
\* after that: the function returns with the connection closed and no
\* write pending; a block that raised was not committed; and while the
\* operation runs the store changes only by the commit of a block that
\* did not raise.
C34_ScopedConnection ==
    /\ [][\A p \in Procs :
             (pc[p] = "return" /\ pc'[p] = "idle") =>
                 LET c == locals[p]
                 IN  /\ c.conn = "closed"
                     /\ c.working = db
                     /\ c.calls[Len(c.calls)] = "close"
                     /\ Made(c.calls, "close") = 1
                     /\ Made(c.calls, "commit") + Made(c.calls, "rollback") = 1
                     /\ c.exc # "none" => Made(c.calls, "commit") = 0]_vars
    /\ [][\A p \in Procs :
             (pc[p] \notin {"idle", "write"} /\ db' # db) =>
                 /\ pc[p] = "commit"
                 /\ locals[p].exc = "none"
                 /\ db' = locals[p].working]_vars

\* An order returns after its commit failed: the UPDATE and the entry it
\* had written were rolled back, then the connection was closed.
C34_Witness ==
    /\ pc[1] = "return"
    /\ locals[1].calls = <<"commit_failed", "rollback", "close">>
    /\ locals[1].conn = "closed"

(* ------------------------ POST /products/bulk_import -------------------- *)

MaxBatch == 3   \* entries of a request body

min_items == 1
max_items == 100

\* Entries of a request body: a name and a quantity.
BulkEntries == { <<<<"a">>, 2>>, <<<<"A">>, 0>>, <<<<"a", " ">>, 0>>, <<<<"a", "-">>, 0>> }

\* Request bodies of POST /products/bulk_import.
BulkInputs == UNION { [1..n -> BulkEntries] : n \in 0..MaxBatch }

\* The BulkProduct model: min_items to max_items entries, each a
\* ProductCreate.
BulkProduct(products) ==
    /\ Len(products) >= min_items
    /\ Len(products) <= max_items
    /\ \A i \in 1..Len(products) : ProductCreate(products[i][1], products[i][2])

\* database.create_product(product_name, quantity) on store d: what it
\* raises, the store its connection leaves behind (db), the store as the
\* connection saw it last (working), and the product it returns.
create_product_outcome(d, product_name, quantity, fault, now) ==
    LET r1 == InsertProduct(d, product_name, quantity, now)
        product_id == r1.db.seq_products
        r2 == log_transaction(r1.db, product_id, "CREATE", None, quantity, now)
        product == SelectProduct(r2.db, product_id)
        raise(exc, msg, working) ==
            [exc |-> exc, msg |-> msg, db |-> ConnExit(d, working, TRUE),
             working |-> working, product |-> None]
    IN  IF ~isalnum(product_name)
        THEN [exc |-> "ValueError", msg |-> "not_alnum", db |-> d, working |-> d,
              product |-> None]
        ELSE IF quantity < 0
        THEN [exc |-> "ValueError", msg |-> "negative", db |-> d, working |-> d,
              product |-> None]
        ELSE IF r1.err # "none" THEN raise("ValueError", "exists", r1.db)
        ELSE IF fault = "log" THEN raise("OperationalError", "log_failed", r1.db)
        ELSE IF r2.err # "none" THEN raise("ValueError", "exists", r1.db)
        ELSE IF fault = "commit" THEN raise("OperationalError", "commit_failed", r2.db)
        ELSE [exc |-> "none", msg |-> "success", db |-> ConnExit(d, r2.db, FALSE),
              working |-> r2.db, product |-> product]

\* The body is validated as a whole (422 without a call of the store);
\* results = {"success": [], "failed": []}.  The validated names are
\* stripped.
bulk_import_products_begin(p) ==
    /\ ReadBegin(p)
    /\ \E bulk \in BulkInputs :
         LET o == ReadCall("bulk_import", <<>>, 0, bulk)
         IN  IF ~BulkProduct(bulk)
             THEN Return(p, o, "RequestValidationError", "unprocessable", None)
             ELSE Fetched(p, o, "bulk",
                          [products |-> [i \in 1..Len(bulk) |->
                                            <<strip(bulk[i][1]), bulk[i][2]>>],
                           success |-> <<>>, failed |-> <<>>])

\* The loop that gives up the rest of the batch at the first failure.
bulk_import_products_loop_breaks(p) ==
    /\ ReadStep(p, "bulk")
    /\ locals[p].products # <<>>
    /\ \E fault \in Faults :
         LET product == Head(locals[p].products)
             result == create_product_outcome(db, product[1], product[2], fault, clock)
         IN  /\ Room(result.working)
             /\ db' = result.db
             /\ locals' = [locals EXCEPT ![p] =
                  IF result.exc = "none"
                  THEN [@ EXCEPT !.products = Tail(@),
                                 !.success = Append(@, result.product[1])]
                  ELSE [@ EXCEPT !.products = <<>>,
                                 !.failed = Append(@, [product_name |-> product[1],
                                                       error |-> result.msg])]]
             /\ UNCHANGED <<clock, pc, op, old_quantity, last>>

\* One turn of for product in bulk.products: create_product in a
\* connection of its own; the result goes to results["success"], any
\* exception to results["failed"].
bulk_import_products_loop(p) ==
    /\ ReadStep(p, "bulk")
    /\ locals[p].products # <<>>
    /\ \E fault \in Faults :
         LET product == Head(locals[p].products)
             result == create_product_outcome(db, product[1], product[2], fault, clock)
         IN  /\ Room(result.working)
             /\ db' = result.db
             /\ locals' = [locals EXCEPT ![p] =
                  IF result.exc = "none"
                  THEN [@ EXCEPT !.products = Tail(@),
                                 !.success = Append(@, result.product[1])]
                  ELSE [@ EXCEPT !.products = Tail(@),
                                 !.failed = Append(@, [product_name |-> product[1],
                                                       error |-> result.msg])]]
             /\ UNCHANGED <<clock, pc, op, old_quantity, last>>

\* return {"message": ..., "results": results}
bulk_import_products_return(p) ==
    /\ ReadStep(p, "bulk")
    /\ locals[p].products = <<>>
    /\ Return(p, op[p], "none", "success",
              Some([success |-> locals[p].success, failed |-> locals[p].failed]))

bulk_import_products(p) ==
    \/ bulk_import_products_begin(p)
    \/ bulk_import_products_loop(p)
    \/ bulk_import_products_return(p)

\* One caller: single creates and deletes, and bulk imports.
BulkNext ==
    \/ create_product(1)
    \/ delete_product(1)
    \/ bulk_import_products(1)
    \/ Respond

BulkSpec == Init /\ [][BulkNext]_vars

\* The names of the entries of a body, stripped.
EntryNames(bulk) == [i \in 1..Len(bulk) |-> strip(bulk[i][1])]

\* The product names of a list of results.
Names(list) == [i \in 1..Len(list) |-> list[i].product_name]

\* How often name n occurs in a list of names.
Times(names, n) == Cardinality({i \in 1..Len(names) : names[i] = n})

\* Every entry of the body bulk is in exactly one of the two lists.
Reported(bulk, results) ==
    /\ Len(results.success) + Len(results.failed) = Len(bulk)
    /\ \A n \in {EntryNames(bulk)[i] : i \in 1..Len(bulk)} :
          Times(Names(results.success), n) + Times(Names(results.failed), n)
              = Times(EntryNames(bulk), n)

\* Every success of the list is one product of store d with one entry, its
\* CREATE entry.
Stored(success, d) ==
    \A i \in 1..Len(success) :
        /\ success[i] \in d.products
        /\ Cardinality({r \in d.products :
                           r.product_name = success[i].product_name}) = 1
        /\ Cardinality(Entries(d, success[i].id)) = 1
        /\ \A t \in Entries(d, success[i].id) :
              t.transaction_type = "CREATE" /\ t.new_quantity = success[i].quantity
        /\ \A j \in 1..Len(success) : success[j].id = success[i].id => j = i

\* A bulk import ends in this step.
BulkEnds == Ends /\ last'.op.kind = "bulk_import"

InvalidAmount(o) ==
    \/ o.kind = "update" /\ o.amount < 0
    \/ o.kind \in {"add", "order"} /\ o.amount <= 0

\* C37: a call of update_product_quantity, add_quantity_to_product or
\* order_product with an amount its function refuses raises the error of
\* the amount and leaves the store alone, whether or not its product is
\* stored: the amount is checked before the store is read.  The error of
\* the missing product is raised for valid amounts only, and the error of
\* insufficient stock only for a product that is stored.
C37_AmountCheckedFirst ==
    [][(Ends /\ last'.op.kind \in {"update", "add", "order"}) =>
          /\ InvalidAmount(last'.op) =>
                /\ last'.exc = "ValueError"
                /\ last'.msg \in {"negative", "not_positive"}
                /\ db' = db
          /\ last'.msg = "not_found" =>
                /\ ~InvalidAmount(last'.op)
                /\ SelectProduct(db, last'.op.product_id) = None
          /\ last'.msg = "insufficient" =>
                /\ ~InvalidAmount(last'.op)
                /\ SelectProduct(db, last'.op.product_id) # None
                /\ last'.old = Some(Product(db, last'.op.product_id).quantity)]_vars

\* An order with an amount that is not positive for a product that is not
\* stored has raised the error of the amount.
C37_Witness ==
    /\ last.op.kind = "order"
    /\ last.op.amount <= 0
    /\ SelectProduct(db, last.op.product_id) = None
    /\ last.exc = "ValueError"
    /\ last.msg = "not_positive"

\* The rows of a listing that belong to the product named n.
RowsOf(rows, n) == {i \in 1..Len(rows) : rows[i].product_name = n}

\* C35: a delete that removes a product named n leaves no product of that
\* name and no entry of the deleted product; a create whose name is not
\* stored succeeds unless the store fails; and the product a create
\* returns has a history of one entry, its own CREATE entry, in both
\* listings.  So after the delete of a product named n, a product named n
\* can be created again and inherits nothing from the deleted one.
C35_RecreateStartsAfresh ==
    /\ [][(/\ Ends
           /\ last'.op.kind = "delete"
           /\ last'.msg = "success"
           /\ SelectProduct(db, last'.op.product_id) # None) =>
             /\ last'.op.product_name = Product(db, last'.op.product_id).product_name
             /\ \A r \in db'.products : r.product_name # last'.op.product_name
             /\ Entries(db', last'.op.product_id) = {}
             /\ \A rows \in get_all_transactions(db', default_limit) :
                   RowsOf(rows, last'.op.product_name) = {}]_vars
    /\ [][(/\ Ends
           /\ last'.op.kind = "create"
           /\ isalnum(last'.op.product_name)
           /\ ~(last'.op.amount < 0)
           /\ last'.exc # "OperationalError"
           /\ ~(\E r \in db.products : r.product_name = last'.op.product_name)) =>
             (last'.exc = "none" /\ last'.msg = "success")]_vars
    /\ [][(Ends /\ last'.op.kind = "create" /\ last'.msg = "success") =>
             LET new == last'.product[1]
             IN  /\ new \in db'.products
                 /\ new.product_name = last'.op.product_name
                 /\ \A rows \in get_transactions_by_product_rows(db', new.id) :
                       /\ Len(rows) = 1
                       /\ rows[1].transaction_type = "CREATE"
                       /\ rows[1].old_quantity = None
                       /\ rows[1].new_quantity = last'.op.amount
                       /\ rows[1].id = db'.seq_transactions
                 /\ \A rows \in get_all_transactions(db', default_limit) :
                       /\ Cardinality(RowsOf(rows, new.product_name)) = 1
                       /\ \A i \in RowsOf(rows, new.product_name) :
                             rows[i].id = db'.seq_transactions]_vars

\* Product 2 has been created with the name "a" of product 1, which was
\* deleted: product 1 is gone, and a second delete of it, which read its
\* name while it was stored, has yet to run its DELETE.
C35_Witness ==
    /\ last.op.kind = "create"
    /\ last.msg = "success"
    /\ last.op.product_name = <<"a">>
    /\ last.product[1].id = 2
    /\ SelectProduct(db, 1) = None
    /\ op[2].kind = "delete"
    /\ op[2].product_id = 1
    /\ op[2].product_name = <<"a">>
    /\ Cardinality(Entries(db, 2)) = 1

====
